---- MODULE Spec2Model ----
(***************************************************************************)
(* Dev-Janitor: the validation layer of the main process.                  *)
(*   CommandValidator  (commandValidator.ts, kept as src/unnamed/part_000) *)
(*   InputValidator    (src/src/main/security/index.ts)                    *)
(*                                                                         *)
(* A JavaScript string is a sequence of characters; a character is a       *)
(* one-character TLA+ string.  The backtick cannot be written in a TLA+    *)
(* string literal, so that one character is spelled "BACKTICK".            *)
(***************************************************************************)
EXTENDS Integers, Sequences, FiniteSets, TLC

VARIABLES
    op,                     \* the method called last ("none" before any call)
    arg,                    \* the JavaScript value passed to it
    ret,                    \* the value it returned
    allowedCommands,        \* contents of the array object ALLOWED_COMMANDS
    validPackageManagers,   \* contents of the array object VALID_PACKAGE_MANAGERS
    lastIndex,              \* lastIndex of each module-level RegExp object
    held,                   \* a caller holds the array getAllowedCommands returned
    site,                   \* the call of each IPC call site that is in flight
    completion,             \* how the last call completed: "normal" or "throw"
    ipc,                    \* the IPC command-execution handler and its request
    cspPolicy,              \* the content of the base policy table CSP_POLICY
    cspCall,                \* the last call of generateCSPHeader
    webRequest,             \* the response-header handler of the window
    cache,                  \* the BoundedLRUCache object, once constructed
    clock,                  \* the value Date.now() returns
    cacheCall,              \* the last call on the cache and what it returned
    recency,                \* history: the cached keys, least recently used first
    client,                 \* the call of invokeWithTimeout and its attempts
    cleanupInterval,        \* the cleanup timer of the CacheManager
    ipcResponse             \* the IPC response built last and what was made of it

vars == <<op, arg, ret, allowedCommands, validPackageManagers, lastIndex, held, site,
         completion, ipc, cspPolicy, cspCall, webRequest,
         cache, clock, cacheCall, recency, client, cleanupInterval,
         ipcResponse>>

\* the components of the security layer of the main process
securityComponents == <<op, arg, ret, allowedCommands, validPackageManagers, lastIndex,
                       held, site, completion, ipc, cspPolicy, cspCall, webRequest>>

\* the components of the utility modules (cacheManager.ts) and of the IPC
\* client of the renderer (ipcClientWithTimeout.ts)
cacheComponents == <<cache, clock, cacheCall, recency>>
utilityComponents == <<cacheComponents, client, cleanupInterval, ipcResponse>>

\* the components a call of a validation method leaves alone
otherComponents == <<ipc, cspPolicy, cspCall, webRequest, utilityComponents>>

-----------------------------------------------------------------------------
(* Bounds of the inputs the model draws.                                   *)

\* largest maxSize a BoundedLRUCache is constructed with
MaxCacheSize == 2
\* largest maxAge, in milliseconds, a BoundedLRUCache is constructed with
MaxCacheAge == 1
\* latest time, in milliseconds, the clock of the cache reaches
MaxNow == 2
\* largest number of retries invokeWithTimeout is called with
MaxRetries == 2

\* longest string over CoreChars given to escapeArgument / containsDangerousChars
MaxLen == 5
\* longest string over the whole alphabet given to the same methods
MaxWideLen == 2
\* longest string over NameChars given to validatePackageName
MaxNameLen == 4
\* longest first argument of a command line given to validateCommand
MaxCmdArgLen == 1
\* longest string over PathChars given to validatePath
MaxPathLen == 4
\* largest magnitude of a number given to validatePID
MaxPid == 3
\* most elements a caller grows the returned array to
MaxArrayLen == 11
\* number of IPC call sites with a call in flight at the same time
NumSites == 2
\* latest reading of the clock behind Date.now()
MaxClock == 1

-----------------------------------------------------------------------------
(* Characters.                                                             *)

Lower == {"a", "b", "c", "d", "e", "f", "g", "h", "i", "j", "k", "l", "m",
          "n", "o", "p", "q", "r", "s", "t", "u", "v", "w", "x", "y", "z"}
Upper == {"A", "B", "C", "D", "E", "F", "G", "H", "I", "J", "K", "L", "M",
          "N", "O", "P", "Q", "R", "S", "T", "U", "V", "W", "X", "Y", "Z"}
Digit == {"0", "1", "2", "3", "4", "5", "6", "7", "8", "9"}

\* what \s matches and what String.prototype.trim strips (the characters of
\* WhiteSpace and LineTerminator that a TLA+ string can spell)
WhiteSpace == {" ", "\t", "\n", "\r", "\f"}

\* the sixteen shell metacharacters of the specification's DangerousCharacterSet
Dangerous16 == {";", "&", "|", "BACKTICK", "$", "(", ")", "{", "}", "[", "]",
                "<", ">", "\\", "'", "\""}

\* the alphabet of the wide inputs: every dangerous character, a letter,
\* and two kinds of white space
AllChars == Dangerous16 \cup {"a", " ", "\t"}
\* the alphabet of the long inputs to the escaping methods
CoreChars == {"\\", ";", "$", "a"}
\* the alphabet of the package names
NameChars == {"a", "A", "-", "~", ".", "@", "/", " "}
\* the alphabet of the short package names
NameWideChars == AllChars \cup NameChars \cup {"0", "_", "z", "Z", "9"}
\* the alphabet of the paths
PathChars == {".", "/", "\\", "a", " "}

Strings(S, n) == UNION {[1..k -> S] : k \in 0..n}

-----------------------------------------------------------------------------
(* JavaScript values.  k is the kind of value, s the characters of a       *)
(* string, n / d the value of a finite number.                             *)

JSString(s) == [k |-> "string", s |-> s, n |-> 0, d |-> 1]
JSNumber(n) == [k |-> "number", s |-> <<>>, n |-> n, d |-> 1]
JSFraction(n, d) == [k |-> "number", s |-> <<>>, n |-> n, d |-> d]
JSNaN == [k |-> "NaN", s |-> <<>>, n |-> 0, d |-> 1]
JSInfinity == [k |-> "Infinity", s |-> <<>>, n |-> 0, d |-> 1]
JSMinusInfinity == [k |-> "-Infinity", s |-> <<>>, n |-> 0, d |-> 1]
JSUndefined == [k |-> "undefined", s |-> <<>>, n |-> 0, d |-> 1]
JSNull == [k |-> "null", s |-> <<>>, n |-> 0, d |-> 1]
JSObject == [k |-> "object", s |-> <<>>, n |-> 0, d |-> 1]
JSArray == [k |-> "array", s |-> <<>>, n |-> 0, d |-> 1]

\* typeof v
TypeOf(v) ==
    CASE v.k \in {"null", "object", "array"} -> "object"
      [] v.k \in {"number", "NaN", "Infinity", "-Infinity"} -> "number"
      [] OTHER -> v.k

\* !v
Not(v) ==
    CASE v.k = "string" -> v.s = <<>>
      [] v.k = "number" -> v.n = 0
      [] v.k \in {"undefined", "null", "NaN"} -> TRUE
      [] OTHER -> FALSE

NonStrings == {JSUndefined, JSNull, JSNumber(0), JSNumber(1), JSNaN, JSObject, JSArray}

-----------------------------------------------------------------------------
(* String.prototype methods.                                               *)

RECURSIVE TrimStart(_)
TrimStart(s) ==
    IF s # <<>> /\ Head(s) \in WhiteSpace THEN TrimStart(Tail(s)) ELSE s

RECURSIVE TrimEnd(_)
TrimEnd(s) ==
    IF s # <<>> /\ s[Len(s)] \in WhiteSpace
    THEN TrimEnd(SubSeq(s, 1, Len(s) - 1))
    ELSE s

\* s.trim()
Trim(s) == TrimEnd(TrimStart(s))

\* parts.join(sep)
RECURSIVE Join(_, _)
Join(parts, sep) ==
    IF parts = <<>> THEN <<>>
    ELSE IF Len(parts) = 1 THEN parts[1]
    ELSE parts[1] \o sep \o Join(Tail(parts), sep)

\* array.includes(x)
Includes(array, x) == \E i \in 1..Len(array) : array[i] = x

\* array.slice(1)
Slice1(array) == IF array = <<>> THEN <<>> ELSE Tail(array)

-----------------------------------------------------------------------------
(* Regular expressions.  A pattern is a tree of nodes; a position p of a   *)
(* string means that p characters were consumed, as lastIndex counts.      *)

Class(S) == [type |-> "class", chars |-> S, subs |-> <<>>]
Lit(c) == Class({c})
Cat(nodes) == [type |-> "cat", chars |-> {}, subs |-> nodes]
Opt(node) == [type |-> "opt", chars |-> {}, subs |-> <<node>>]
Star(node) == [type |-> "star", chars |-> {}, subs |-> <<node>>]
Plus(node) == Cat(<<node, Star(node)>>)

\* Ends(node, str, P): the positions at which a match of node can end when
\* it starts at one of the positions P
RECURSIVE Ends(_, _, _)
RECURSIVE EndsCat(_, _, _, _)
RECURSIVE EndsStar(_, _, _)
Ends(node, str, P) ==
    CASE node.type = "class" ->
            {p + 1 : p \in {q \in P : q < Len(str) /\ str[q + 1] \in node.chars}}
      [] node.type = "cat" -> EndsCat(node.subs, 1, str, P)
      [] node.type = "opt" -> P \cup Ends(node.subs[1], str, P)
      [] node.type = "star" -> EndsStar(node.subs[1], str, P)

EndsCat(subs, i, str, P) ==
    IF i > Len(subs) \/ P = {} THEN P
    ELSE EndsCat(subs, i + 1, str, Ends(subs[i], str, P))

EndsStar(sub, str, P) ==
    LET Q == P \cup Ends(sub, str, P)
    IN  IF Q = P THEN P ELSE EndsStar(sub, str, Q)

SetMax(S) == CHOOSE x \in S : \A y \in S : y <= x
SetMin(S) == CHOOSE x \in S : \A y \in S : x <= y

\* the ends of the matches of the RegExp re that start at position q
MatchEnds(re, str, q) ==
    IF re.anchorStart /\ q # 0 THEN {}
    ELSE {e \in Ends(re.node, str, {q}) : re.anchorEnd => e = Len(str)}

\* RegExpBuiltinExec, as RegExp.prototype.test uses it: the search starts at
\* lastIndex only under the g flag, and only then is lastIndex written.
\* li is the lastIndex of re before the call.
RegExpTest(re, str, li) ==
    LET start == IF re.global THEN li ELSE 0
        found == {q \in start..Len(str) : MatchEnds(re, str, q) # {}}
    IN  IF start > Len(str) \/ found = {}
        THEN [result |-> FALSE, lastIndex |-> IF re.global THEN 0 ELSE li]
        ELSE [result |-> TRUE,
              lastIndex |-> IF re.global
                            THEN SetMax(MatchEnds(re, str, SetMin(found)))
                            ELSE li]

\* str.split(separator) for a RegExp separator (the steps of
\* RegExp.prototype[@@split]: p is the start of the current piece, q the
\* position tried next; a greedy separator ends at its longest match)
RECURSIVE SplitLoop(_, _, _, _, _)
SplitLoop(node, str, p, q, pieces) ==
    IF q >= Len(str) THEN Append(pieces, SubSeq(str, p + 1, Len(str)))
    ELSE LET E == Ends(node, str, {q})
         IN  IF E = {} \/ SetMax(E) = p
             THEN SplitLoop(node, str, p, q + 1, pieces)
             ELSE SplitLoop(node, str, SetMax(E), SetMax(E),
                            Append(pieces, SubSeq(str, p + 1, q)))

Split(str, node) ==
    IF str = <<>>
    THEN IF Ends(node, str, {0}) # {} THEN <<>> ELSE <<str>>
    ELSE SplitLoop(node, str, 0, 0, <<>>)

\* /\s/: the separator without its +
WhiteSpaceOne == Class(WhiteSpace)

\* /\s+/
WhiteSpaceRun == Plus(Class(WhiteSpace))

-----------------------------------------------------------------------------
(* commandValidator.ts                                                     *)

\* export const ALLOWED_COMMANDS: readonly string[] = [...] as const
ALLOWED_COMMANDS ==
    << <<"n", "p", "m">>,
       <<"n", "p", "x">>,
       <<"p", "i", "p">>,
       <<"p", "i", "p", "3">>,
       <<"c", "o", "m", "p", "o", "s", "e", "r">>,
       <<"c", "a", "r", "g", "o">>,
       <<"g", "e", "m">>,
       <<"n", "o", "d", "e">>,
       <<"p", "y", "t", "h", "o", "n">>,
       <<"p", "y", "t", "h", "o", "n", "3">> >>

\* The array is typed readonly and declared "as const"; both exist only for
\* the type checker.  Nothing freezes the array object at run time.
ALLOWED_COMMANDS_frozen == FALSE

\* DANGEROUS_PATTERNS with the backslash left out of the class
DANGEROUS_PATTERNS_noBackslash ==
    [name |-> "DANGEROUS_PATTERNS",
     node |-> Class({";", "&", "|", "BACKTICK", "$", "(", ")", "{", "}", "[",
                     "]", "<", ">", "'", "\""}),
     anchorStart |-> FALSE, anchorEnd |-> FALSE, global |-> FALSE]

\* DANGEROUS_PATTERNS written with the g flag
DANGEROUS_PATTERNS_global ==
    [name |-> "DANGEROUS_PATTERNS",
     node |-> Class({";", "&", "|", "BACKTICK", "$", "(", ")", "{", "}", "[",
                     "]", "<", ">", "\\", "'", "\""}),
     anchorStart |-> FALSE, anchorEnd |-> FALSE, global |-> TRUE]

\* DANGEROUS_PATTERNS written with a leading ^
DANGEROUS_PATTERNS_anchored ==
    [name |-> "DANGEROUS_PATTERNS",
     node |-> Class({";", "&", "|", "BACKTICK", "$", "(", ")", "{", "}", "[",
                     "]", "<", ">", "\\", "'", "\""}),
     anchorStart |-> TRUE, anchorEnd |-> FALSE, global |-> FALSE]

\* export const DANGEROUS_PATTERNS = /[;&|`$(){}[\]<>\\'"]/  (no flags)
DANGEROUS_PATTERNS ==
    [name |-> "DANGEROUS_PATTERNS",
     node |-> Class({";", "&", "|", "BACKTICK", "$", "(", ")", "{", "}", "[",
                     "]", "<", ">", "\\", "'", "\""}),
     anchorStart |-> FALSE, anchorEnd |-> FALSE, global |-> FALSE]

\* re.test(str) on a module-level RegExp: the result and every lastIndex after it
Test(re, str, li) ==
    LET t == RegExpTest(re, str, li[re.name])
    IN  [ret |-> t.result, lastIndex |-> [li EXCEPT ![re.name] = t.lastIndex]]

\* CommandValidator.containsDangerousChars
containsDangerousChars(input, li) ==
    IF Not(input) \/ TypeOf(input) # "string"
    THEN [ret |-> FALSE, lastIndex |-> li]
    ELSE Test(DANGEROUS_PATTERNS, input.s, li)

\* dangerousChars with the dollar sign forgotten
dangerousChars_noDollar ==
    <<";", "&", "|", "BACKTICK", "(", ")", "{", "}", "[", "]", "<", ">",
      "'", "\"">>

\* const dangerousChars = [...] of escapeArgument: the backslash is not in it
dangerousChars ==
    <<";", "&", "|", "BACKTICK", "$", "(", ")", "{", "}", "[", "]", "<", ">",
      "'", "\"">>

\* the loop without its look-ahead: every backslash and every dangerous
\* character gets a backslash in front, as a global replace would do
RECURSIVE escapeLoop_naive(_, _, _)
escapeLoop_naive(a, i, result) ==
    IF ~(i < Len(a)) THEN result
    ELSE IF a[i + 1] = "\\" \/ Includes(dangerousChars, a[i + 1])
    THEN escapeLoop_naive(a, i + 1, result \o <<"\\", a[i + 1]>>)
    ELSE escapeLoop_naive(a, i + 1, Append(result, a[i + 1]))

\* the loop copying a lone backslash as it is
RECURSIVE escapeLoop_keepsLoneBackslash(_, _, _)
escapeLoop_keepsLoneBackslash(a, i, result) ==
    IF ~(i < Len(a)) THEN result
    ELSE LET char == a[i + 1]
         IN  IF char = "\\"
             THEN IF i + 1 < Len(a) /\ Includes(dangerousChars, a[i + 2])
                  THEN escapeLoop_keepsLoneBackslash(a, i + 2, result \o <<char, a[i + 2]>>)
                  ELSE IF i + 1 < Len(a) /\ a[i + 2] = "\\"
                  THEN escapeLoop_keepsLoneBackslash(a, i + 2, result \o <<"\\", "\\">>)
                  ELSE escapeLoop_keepsLoneBackslash(a, i + 1, result \o <<"\\">>)
             ELSE IF Includes(dangerousChars, char)
             THEN escapeLoop_keepsLoneBackslash(a, i + 1, result \o <<"\\", char>>)
             ELSE escapeLoop_keepsLoneBackslash(a, i + 1, Append(result, char))

\* the while loop of escapeArgument; i counts from 0, as in the source
RECURSIVE escapeLoop(_, _, _)
escapeLoop(a, i, result) ==
    IF ~(i < Len(a)) THEN result
    ELSE LET char == a[i + 1]
         IN  IF char = "\\"
             THEN IF i + 1 < Len(a) /\ Includes(dangerousChars, a[i + 2])
                  THEN escapeLoop(a, i + 2, result \o <<char, a[i + 2]>>)
                  ELSE IF i + 1 < Len(a) /\ a[i + 2] = "\\"
                  THEN escapeLoop(a, i + 2, result \o <<"\\", "\\">>)
                  ELSE escapeLoop(a, i + 1, result \o <<"\\", "\\">>)
             ELSE IF Includes(dangerousChars, char)
             THEN escapeLoop(a, i + 1, result \o <<"\\", char>>)
             ELSE escapeLoop(a, i + 1, Append(result, char))

\* CommandValidator.escapeArgument: the returned string
escapeArgument(a) ==
    IF Not(a) \/ TypeOf(a) # "string" THEN <<>>
    ELSE escapeLoop(a.s, 0, <<>>)

\* the error strings of validateCommand: the text of the message, and for the
\* template string the value put into it
ErrCommandEmpty == <<"command must not be empty">>
ErrNotAllowed(baseCommand) == <<"command is not in the allowed list: ", baseCommand>>
ErrUnsafeChars == <<"command contains unsafe characters">>

\* args.map((arg) => this.escapeArgument(arg))
MapEscape(args) == [i \in 1..Len(args) |-> escapeArgument(JSString(args[i]))]

\* validateCommand with the dangerous-character gate before the allow-list gate
validateCommand_dangerFirst(command, allowed, li) ==
    IF Not(command) \/ TypeOf(command) # "string"
    THEN [ret |-> [valid |-> FALSE, error |-> ErrCommandEmpty], lastIndex |-> li]
    ELSE
    LET trimmedCommand == Trim(command.s)
        parts == Split(trimmedCommand, WhiteSpaceRun)
        baseCommand == parts[1]
        danger == containsDangerousChars(JSString(trimmedCommand), li)
        escapedArgs == MapEscape(Slice1(parts))
        sanitizedCommand == Join(<<baseCommand>> \o escapedArgs, <<" ">>)
    IN  IF Len(trimmedCommand) = 0
        THEN [ret |-> [valid |-> FALSE, error |-> ErrCommandEmpty],
              lastIndex |-> li]
        ELSE IF danger.ret
        THEN [ret |-> [valid |-> FALSE, error |-> ErrUnsafeChars],
              lastIndex |-> danger.lastIndex]
        ELSE IF ~Includes(allowed, baseCommand)
        THEN [ret |-> [valid |-> FALSE, error |-> ErrNotAllowed(baseCommand)],
              lastIndex |-> danger.lastIndex]
        ELSE [ret |-> [valid |-> TRUE, sanitizedCommand |-> sanitizedCommand],
              lastIndex |-> danger.lastIndex]

\* CommandValidator.validateCommand; allowed is the content of ALLOWED_COMMANDS
\* at the call, li every lastIndex at the call
validateCommand(command, allowed, li) ==
    IF Not(command) \/ TypeOf(command) # "string"
    THEN [ret |-> [valid |-> FALSE, error |-> ErrCommandEmpty], lastIndex |-> li]
    ELSE
    LET trimmedCommand == Trim(command.s)
        parts == Split(trimmedCommand, WhiteSpaceRun)
        baseCommand == parts[1]
        danger == containsDangerousChars(JSString(trimmedCommand), li)
        escapedArgs == MapEscape(Slice1(parts))
        sanitizedCommand == Join(<<baseCommand>> \o escapedArgs, <<" ">>)
    IN  IF Len(trimmedCommand) = 0
        THEN [ret |-> [valid |-> FALSE, error |-> ErrCommandEmpty],
              lastIndex |-> li]
        ELSE IF ~Includes(allowed, baseCommand)
        THEN [ret |-> [valid |-> FALSE, error |-> ErrNotAllowed(baseCommand)],
              lastIndex |-> li]
        ELSE IF danger.ret
        THEN [ret |-> [valid |-> FALSE, error |-> ErrUnsafeChars],
              lastIndex |-> danger.lastIndex]
        ELSE [ret |-> [valid |-> TRUE, sanitizedCommand |-> sanitizedCommand],
              lastIndex |-> danger.lastIndex]

\* CommandValidator.getAllowedCommands: the array object itself, not a copy
getAllowedCommands == "ALLOWED_COMMANDS"

-----------------------------------------------------------------------------
(* inputValidator.ts (in src/src/main/security/index.ts)                   *)

\* the first-character class widened by the dot
NpmFirstClass_withDot == Class(Lower \cup Digit \cup {"-", "~", "."})

\* the rest class admitting the dollar sign
NpmRestClass_withDollar == Class(Lower \cup Digit \cup {"-", ".", "_", "~", "$"})

\* [a-z0-9-~] and [a-z0-9-._~]: a "-" right after a range is a literal
NpmFirstClass == Class(Lower \cup Digit \cup {"-", "~"})
NpmRestClass == Class(Lower \cup Digit \cup {"-", ".", "_", "~"})

\* NPM_PACKAGE_PATTERN without its closing $
NPM_PACKAGE_PATTERN_noEnd ==
    [name |-> "NPM_PACKAGE_PATTERN",
     node |-> Cat(<<Opt(Cat(<<Lit("@"), NpmFirstClass, Star(NpmRestClass), Lit("/")>>)),
                    NpmFirstClass, Star(NpmRestClass)>>),
     anchorStart |-> TRUE, anchorEnd |-> FALSE, global |-> FALSE]

\* export const NPM_PACKAGE_PATTERN =
\*   /^(@[a-z0-9-~][a-z0-9-._~]*\/)?[a-z0-9-~][a-z0-9-._~]*$/
NPM_PACKAGE_PATTERN ==
    [name |-> "NPM_PACKAGE_PATTERN",
     node |-> Cat(<<Opt(Cat(<<Lit("@"), NpmFirstClass, Star(NpmRestClass), Lit("/")>>)),
                    NpmFirstClass, Star(NpmRestClass)>>),
     anchorStart |-> TRUE, anchorEnd |-> TRUE, global |-> FALSE]

\* export const PIP_PACKAGE_PATTERN = /^[a-zA-Z0-9]([a-zA-Z0-9._-]*[a-zA-Z0-9])?$/
PIP_PACKAGE_PATTERN ==
    [name |-> "PIP_PACKAGE_PATTERN",
     node |-> Cat(<<Class(Lower \cup Upper \cup Digit),
                    Opt(Cat(<<Star(Class(Lower \cup Upper \cup Digit \cup {".", "_", "-"})),
                              Class(Lower \cup Upper \cup Digit)>>))>>),
     anchorStart |-> TRUE, anchorEnd |-> TRUE, global |-> FALSE]

\* the traversal pattern tied to the start of the string: /^\.\./
PATH_TRAVERSAL_PATTERN_anchored ==
    [name |-> "PATH_TRAVERSAL_PATTERN",
     node |-> Cat(<<Lit("."), Lit(".")>>),
     anchorStart |-> TRUE, anchorEnd |-> FALSE, global |-> FALSE]

\* export const PATH_TRAVERSAL_PATTERN = /\.\./
PATH_TRAVERSAL_PATTERN ==
    [name |-> "PATH_TRAVERSAL_PATTERN",
     node |-> Cat(<<Lit("."), Lit(".")>>),
     anchorStart |-> FALSE, anchorEnd |-> FALSE, global |-> FALSE]

\* export const VALID_PACKAGE_MANAGERS: readonly PackageManagerType[] = [...]
VALID_PACKAGE_MANAGERS ==
    << <<"n", "p", "m">>, <<"p", "i", "p">>,
       <<"c", "o", "m", "p", "o", "s", "e", "r">> >>

\* the error strings of InputValidator
ErrNameEmpty == <<"package name must not be empty">>
ErrNameFormat == <<"invalid package name format">>
ErrPidType == <<"PID must be of number type">>
ErrPidNaN == <<"PID must not be NaN">>
ErrPidFinite == <<"PID must be finite">>
ErrPidInteger == <<"PID must be an integer">>
ErrPidPositive == <<"PID must be a positive integer">>
ErrPathEmpty == <<"path must not be empty">>
ErrPathTraversal == <<"path contains unsafe characters (..)">>
ErrManagerEmpty == <<"package manager name must not be empty">>
ErrManagerInvalid(managers) ==
    <<"invalid package manager, supported: ", Join(managers, <<",", " ">>)>>

\* InputValidator.validatePackageName
validatePackageName(name, li) ==
    IF TypeOf(name) # "string" \/ Trim(name.s) = <<>>
    THEN [ret |-> [valid |-> FALSE, error |-> ErrNameEmpty], lastIndex |-> li]
    ELSE
    LET trimmedName == Trim(name.s)
        npm == Test(NPM_PACKAGE_PATTERN, trimmedName, li)
        pip == Test(PIP_PACKAGE_PATTERN, trimmedName, npm.lastIndex)
    IN  IF npm.ret
        THEN [ret |-> [valid |-> TRUE, value |-> trimmedName],
              lastIndex |-> npm.lastIndex]
        ELSE IF pip.ret
        THEN [ret |-> [valid |-> TRUE, value |-> trimmedName],
              lastIndex |-> pip.lastIndex]
        ELSE [ret |-> [valid |-> FALSE, error |-> ErrNameFormat],
              lastIndex |-> pip.lastIndex]

\* validatePID with "pid < 0" as its last check
validatePID_zeroAllowed(pid) ==
    IF TypeOf(pid) # "number" THEN [valid |-> FALSE, error |-> ErrPidType]
    ELSE IF pid.k = "NaN" THEN [valid |-> FALSE, error |-> ErrPidNaN]
    ELSE IF pid.k # "number" THEN [valid |-> FALSE, error |-> ErrPidFinite]
    ELSE IF pid.n % pid.d # 0 THEN [valid |-> FALSE, error |-> ErrPidInteger]
    ELSE IF pid.n < 0 THEN [valid |-> FALSE, error |-> ErrPidPositive]
    ELSE [valid |-> TRUE, value |-> pid]

\* validatePID with the sign checked before Number.isInteger
validatePID_positiveFirst(pid) ==
    IF TypeOf(pid) # "number" THEN [valid |-> FALSE, error |-> ErrPidType]
    ELSE IF pid.k = "NaN" THEN [valid |-> FALSE, error |-> ErrPidNaN]
    ELSE IF pid.k # "number" THEN [valid |-> FALSE, error |-> ErrPidFinite]
    ELSE IF pid.n <= 0 THEN [valid |-> FALSE, error |-> ErrPidPositive]
    ELSE IF pid.n % pid.d # 0 THEN [valid |-> FALSE, error |-> ErrPidInteger]
    ELSE [valid |-> TRUE, value |-> pid]

\* InputValidator.validatePID
validatePID(pid) ==
    IF TypeOf(pid) # "number" THEN [valid |-> FALSE, error |-> ErrPidType]
    ELSE IF pid.k = "NaN" THEN [valid |-> FALSE, error |-> ErrPidNaN]
    ELSE IF pid.k # "number" THEN [valid |-> FALSE, error |-> ErrPidFinite]
    ELSE IF pid.n % pid.d # 0 THEN [valid |-> FALSE, error |-> ErrPidInteger]
    ELSE IF pid.n <= 0 THEN [valid |-> FALSE, error |-> ErrPidPositive]
    ELSE [valid |-> TRUE, value |-> pid]

\* InputValidator.validatePath
validatePath(path, li) ==
    IF TypeOf(path) # "string" \/ Trim(path.s) = <<>>
    THEN [ret |-> [valid |-> FALSE, error |-> ErrPathEmpty], lastIndex |-> li]
    ELSE
    LET trimmedPath == Trim(path.s)
        traversal == Test(PATH_TRAVERSAL_PATTERN, trimmedPath, li)
    IN  IF traversal.ret
        THEN [ret |-> [valid |-> FALSE, error |-> ErrPathTraversal],
              lastIndex |-> traversal.lastIndex]
        ELSE [ret |-> [valid |-> TRUE, value |-> trimmedPath],
              lastIndex |-> traversal.lastIndex]

\* String.prototype.toLowerCase on the letters A-Z
LowerOf(c) ==
    CASE c = "A" -> "a" [] c = "B" -> "b" [] c = "C" -> "c" [] c = "D" -> "d"
      [] c = "E" -> "e" [] c = "F" -> "f" [] c = "G" -> "g" [] c = "H" -> "h"
      [] c = "I" -> "i" [] c = "J" -> "j" [] c = "K" -> "k" [] c = "L" -> "l"
      [] c = "M" -> "m" [] c = "N" -> "n" [] c = "O" -> "o" [] c = "P" -> "p"
      [] c = "Q" -> "q" [] c = "R" -> "r" [] c = "S" -> "s" [] c = "T" -> "t"
      [] c = "U" -> "u" [] c = "V" -> "v" [] c = "W" -> "w" [] c = "X" -> "x"
      [] c = "Y" -> "y" [] c = "Z" -> "z" [] OTHER -> c

ToLowerCase(s) == [i \in 1..Len(s) |-> LowerOf(s[i])]

\* validatePackageManager without toLowerCase
validatePackageManager_noLowerCase(manager, managers) ==
    IF TypeOf(manager) # "string" \/ Trim(manager.s) = <<>>
    THEN [valid |-> FALSE, error |-> ErrManagerEmpty]
    ELSE
    LET trimmedManager == Trim(manager.s)
    IN  IF Includes(managers, trimmedManager)
        THEN [valid |-> TRUE, value |-> trimmedManager]
        ELSE [valid |-> FALSE, error |-> ErrManagerInvalid(managers)]

\* validatePackageManager handing the rejected name back beside the error
validatePackageManager_keepsValue(manager, managers) ==
    IF TypeOf(manager) # "string" \/ Trim(manager.s) = <<>>
    THEN [valid |-> FALSE, error |-> ErrManagerEmpty]
    ELSE
    LET trimmedManager == ToLowerCase(Trim(manager.s))
    IN  IF Includes(managers, trimmedManager)
        THEN [valid |-> TRUE, value |-> trimmedManager]
        ELSE [valid |-> FALSE, value |-> trimmedManager,
              error |-> ErrManagerInvalid(managers)]

\* InputValidator.validatePackageManager; managers is the content of
\* VALID_PACKAGE_MANAGERS at the call
validatePackageManager(manager, managers) ==
    IF TypeOf(manager) # "string" \/ Trim(manager.s) = <<>>
    THEN [valid |-> FALSE, error |-> ErrManagerEmpty]
    ELSE
    LET trimmedManager == ToLowerCase(Trim(manager.s))
    IN  IF Includes(managers, trimmedManager)
        THEN [valid |-> TRUE, value |-> trimmedManager]
        ELSE [valid |-> FALSE, error |-> ErrManagerInvalid(managers)]

-----------------------------------------------------------------------------
(* How a call completes: normally, with a returned value, or abruptly,     *)
(* with a TypeError thrown where a property of undefined or null is read   *)
(* or a String method is called on a value that has none.                  *)

\* v.length, v[i]: reading a property of undefined or null throws
ReadThrows(v) == v.k \in {"undefined", "null"}

\* v.trim(): only a string has the method; on every other value the call throws
CallThrows(v) == v.k # "string"

\* validateCommand: the guard, then command.trim()
validateCommandCompletion(command) ==
    IF Not(command) \/ TypeOf(command) # "string" THEN "normal"
    ELSE IF CallThrows(command) THEN "throw"
    ELSE "normal"

\* containsDangerousChars: the guard, then RegExp.prototype.test, which
\* converts its argument to a string
containsDangerousCharsCompletion(input) ==
    IF Not(input) \/ TypeOf(input) # "string" THEN "normal"
    ELSE "normal"

\* escapeArgument: the guard, then arg.length and arg[i]
escapeArgumentCompletion(a) ==
    IF Not(a) \/ TypeOf(a) # "string" THEN "normal"
    ELSE IF ReadThrows(a) THEN "throw"
    ELSE "normal"

\* validatePackageName with name.trim() called before the type is looked at
validatePackageNameCompletion_trimFirst(name) ==
    IF CallThrows(name) THEN "throw"
    ELSE "normal"

\* validatePackageName: typeof name !== 'string' || name.trim() === ''
validatePackageNameCompletion(name) ==
    IF TypeOf(name) # "string" THEN "normal"
    ELSE IF CallThrows(name) THEN "throw"
    ELSE "normal"

\* validatePID: typeof, Number.isNaN, Number.isFinite, Number.isInteger and
\* a comparison, none of which throws
validatePIDCompletion(pid) == "normal"

\* validatePath: typeof path !== 'string' || path.trim() === ''
validatePathCompletion(path) ==
    IF TypeOf(path) # "string" THEN "normal"
    ELSE IF CallThrows(path) THEN "throw"
    ELSE "normal"

\* validatePackageManager: typeof manager !== 'string' || manager.trim() === ''
validatePackageManagerCompletion(manager) ==
    IF TypeOf(manager) # "string" THEN "normal"
    ELSE IF CallThrows(manager) THEN "throw"
    ELSE "normal"

\* what the call site gets: the returned value, or nothing when the call threw
Returned(c, value) == IF c = "throw" THEN JSUndefined ELSE value

-----------------------------------------------------------------------------
(* ipcResponse.ts and the IPC command-execution handler.  The handler      *)
(* takes a request, gives each parameter to InputValidator, assembles the  *)
(* command line from the accepted values, gives it to validateCommand and  *)
(* executes what validateCommand returned; a rejected request is answered  *)
(* with an error response.                                                 *)

\* export enum IPCErrorCode
IPCErrorCode ==
    {"VALIDATION_ERROR", "COMMAND_REJECTED", "TIMEOUT", "NOT_FOUND",
     "PERMISSION_DENIED", "INTERNAL_ERROR", "NETWORK_ERROR", "CANCELLED"}

\* createSuccessResponse(data); now is what Date.now() gives
createSuccessResponse(data, now) ==
    [success |-> TRUE, data |-> data, timestamp |-> now]

\* getErrorMessage(IPCErrorCode.VALIDATION_ERROR)
ErrInputValidationFailed == <<"input validation failed">>

\* createErrorResponse putting the general text of the code in place of the message
createErrorResponse_generalMessage(code, message, details, now) ==
    [success |-> FALSE,
     error |-> [code |-> code, message |-> ErrInputValidationFailed, details |-> details],
     timestamp |-> now]

\* createErrorResponse(code, message, details); now is what Date.now() gives
createErrorResponse(code, message, details, now) ==
    [success |-> FALSE,
     error |-> [code |-> code, message |-> message, details |-> details],
     timestamp |-> now]

\* response.data: undefined when the object has no such property
DataOf(response) ==
    IF "data" \in DOMAIN response THEN response.data ELSE JSUndefined

\* response.error !== undefined
HasError(response) == "error" \in DOMAIN response

\* isSuccessResponse(response)
isSuccessResponse(response) ==
    response.success = TRUE /\ DataOf(response) # JSUndefined

\* isErrorResponse(response)
isErrorResponse(response) ==
    response.success = FALSE /\ HasError(response)

\* the error unwrapResponse throws: new Error(message) given the property code
UnwrapError(message, code) == [message |-> message, code |-> code]
NoUnwrapError == UnwrapError(<<>>, "")

\* unwrapResponse(response): [completion, value returned, error thrown]
unwrapResponse(response) ==
    IF isSuccessResponse(response)
    THEN [completion |-> "return", value |-> response.data, error |-> NoUnwrapError]
    ELSE [completion |-> "throw", value |-> JSUndefined,
          error |-> UnwrapError(IF HasError(response) THEN response.error.message
                                ELSE <<"Unknown error">>,
                                IF HasError(response) THEN response.error.code
                                ELSE "undefined")]

\* no response has been built
NoResponse ==
    [call |-> "none", data |-> JSUndefined, code |-> "", message |-> <<>>,
     value |-> [success |-> FALSE, timestamp |-> 0],
     guarded |-> FALSE, isSuccess |-> FALSE, isError |-> FALSE,
     unwrapped |-> [completion |-> "none", value |-> JSUndefined,
                    error |-> NoUnwrapError]]

\* the readings of the clock
Clock == 0..MaxClock

\* the command line a channel assembles from the accepted values
Assemble(channel, values) ==
    IF channel = "install"
    THEN values[1] \o <<" ", "i", "n", "s", "t", "a", "l", "l", " ">> \o values[2]
    ELSE <<"n", "o", "d", "e", " ">> \o values[1]

\* the InputValidator calls of a channel, one per parameter and in the
\* order of the parameters: the accepted values, or the first reason
ValidateParameters(request, managers, li) ==
    IF request.channel = "install"
    THEN LET m == validatePackageManager(request.params[1], managers)
             n == validatePackageName(request.params[2], li)
         IN  IF ~m.valid
             THEN [valid |-> FALSE, error |-> m.error, lastIndex |-> li]
             ELSE IF ~n.ret.valid
             THEN [valid |-> FALSE, error |-> n.ret.error, lastIndex |-> n.lastIndex]
             ELSE [valid |-> TRUE, values |-> <<m.value, n.ret.value>>,
                   lastIndex |-> n.lastIndex]
    ELSE LET p == validatePath(request.params[1], li)
         IN  IF ~p.ret.valid
             THEN [valid |-> FALSE, error |-> p.ret.error, lastIndex |-> p.lastIndex]
             ELSE [valid |-> TRUE, values |-> <<p.ret.value>>,
                   lastIndex |-> p.lastIndex]

\* the handler between two requests
IpcIdle ==
    [pc |-> "idle", request |-> [channel |-> "none", params |-> <<>>],
     values |-> <<>>, command |-> <<>>, executed |-> <<>>, warned |-> FALSE,
     response |-> JSUndefined]

-----------------------------------------------------------------------------
(* cspManager.ts: the base policy table, generateCSPHeader and the         *)
(* response-header handler that applyToWindow installs.                    *)

\* "'self'", "'none'" and "'unsafe-inline'"
Self == <<"'", "s", "e", "l", "f", "'">>
None == <<"'", "n", "o", "n", "e", "'">>
UnsafeInline ==
    <<"'", "u", "n", "s", "a", "f", "e", "-", "i", "n", "l", "i", "n", "e",
      "'">>

\* const CSP_POLICY = { 'default-src': ["'self'"], ... }: the directives in the
\* order of the keys, each with its list of values
CSP_POLICY ==
    <<
      [name |-> <<"d", "e", "f", "a", "u", "l", "t", "-", "s", "r", "c">>,
       values |-> <<Self>>],
      [name |-> <<"s", "c", "r", "i", "p", "t", "-", "s", "r", "c">>,
       values |-> <<Self>>],
      [name |-> <<"s", "t", "y", "l", "e", "-", "s", "r", "c">>,
       values |-> <<Self, UnsafeInline>>],
      [name |-> <<"i", "m", "g", "-", "s", "r", "c">>,
       values |-> <<Self, <<"d", "a", "t", "a", ":">>, <<"h", "t", "t", "p", "s", ":">>>>],
      [name |-> <<"c", "o", "n", "n", "e", "c", "t", "-", "s", "r", "c">>,
       values |-> <<Self>>],
      [name |-> <<"f", "o", "n", "t", "-", "s", "r", "c">>,
       values |-> <<Self>>],
      [name |-> <<"o", "b", "j", "e", "c", "t", "-", "s", "r", "c">>,
       values |-> <<None>>],
      [name |-> <<"b", "a", "s", "e", "-", "u", "r", "i">>,
       values |-> <<Self>>],
      [name |-> <<"f", "o", "r", "m", "-", "a", "c", "t", "i", "o", "n">>,
       values |-> <<Self>>],
      [name |-> <<"f", "r", "a", "m", "e", "-", "a", "n", "c", "e", "s", "t", "o", "r", "s">>,
       values |-> <<None>>]
    >>

\* the names of the two directives a config adds to
ScriptSrc == <<"s", "c", "r", "i", "p", "t", "-", "s", "r", "c">>
ConnectSrc == <<"c", "o", "n", "n", "e", "c", "t", "-", "s", "r", "c">>

\* what development mode adds to connect-src
LocalhostHttp ==
    <<"h", "t", "t", "p", ":", "/", "/", "l", "o", "c", "a", "l", "h", "o",
      "s", "t", ":", "*">>
LocalhostWs ==
    <<"w", "s", ":", "/", "/", "l", "o", "c", "a", "l", "h", "o", "s", "t",
      ":", "*">>

\* the config fields nonce and devServerUrl are optional: a field is set
\* when its value is truthy
IsSet(v) == ~Not(v)

\* s.startsWith(prefix)
StartsWith(s, prefix) ==
    Len(s) >= Len(prefix) /\ SubSeq(s, 1, Len(prefix)) = prefix

\* the websocket-scheme equivalent of an origin: http -> ws, https -> wss
WebSocketOf(url) ==
    IF StartsWith(url, <<"h", "t", "t", "p">>)
    THEN <<"w", "s">> \o SubSeq(url, 5, Len(url))
    ELSE url

\* the table with the values appended to the list of the directive name
PushValues(policy, name, values) ==
    [i \in 1..Len(policy) |->
        IF policy[i].name = name
        THEN [policy[i] EXCEPT !.values = @ \o values]
        ELSE policy[i]]

\* the policy of one call: the table with the nonce source appended to
\* script-src and the development origins appended to connect-src
PolicyFor(config, policy) ==
    LET withNonce ==
            IF IsSet(config.nonce)
            THEN PushValues(policy, ScriptSrc,
                            << <<"'", "n", "o", "n", "c", "e", "-">> \o config.nonce.s \o <<"'">> >>)
            ELSE policy
        withLocalhost ==
            IF config.isDevelopment
            THEN PushValues(withNonce, ConnectSrc, <<LocalhostHttp, LocalhostWs>>)
            ELSE withNonce
    IN  IF config.isDevelopment /\ IsSet(config.devServerUrl)
        THEN PushValues(withLocalhost, ConnectSrc,
                        <<config.devServerUrl.s, WebSocketOf(config.devServerUrl.s)>>)
        ELSE withLocalhost

\* "directive-name token1 token2 ...; directive-name token1 ..."
Serialize(policy) ==
    Join([i \in 1..Len(policy) |->
             policy[i].name \o <<" ">> \o Join(policy[i].values, <<" ">>)],
         <<";", " ">>)

\* generateCSPHeader appending to the lists of the table itself
generateCSPHeader_sharedLists(config, policy) ==
    [header |-> Serialize(PolicyFor(config, policy)),
     policy |-> PolicyFor(config, policy)]

\* CSPManager.generateCSPHeader: the header, and the table after the call;
\* policy is the content of CSP_POLICY at the call
generateCSPHeader(config, policy) ==
    [header |-> Serialize(PolicyFor(config, policy)),
     policy |-> policy]

\* the handler keeping the values the response came with and adding its own
onHeadersReceived_appending(responseHeaders, header) ==
    [k \in DOMAIN responseHeaders \cup {"Content-Security-Policy"} |->
        IF k = "Content-Security-Policy"
        THEN (IF k \in DOMAIN responseHeaders THEN responseHeaders[k] ELSE <<>>)
                 \o <<header>>
        ELSE responseHeaders[k]]

\* the handler applyToWindow gives to webRequest.onHeadersReceived: the
\* responseHeaders it calls back with
onHeadersReceived(responseHeaders, header) ==
    [k \in DOMAIN responseHeaders \cup {"Content-Security-Policy"} |->
        IF k = "Content-Security-Policy" THEN <<header>> ELSE responseHeaders[k]]

\* no call of generateCSPHeader yet; no handler installed, no response yet
NoConfig == [isDevelopment |-> FALSE, nonce |-> JSUndefined, devServerUrl |-> JSUndefined]
NoCall == [made |-> FALSE, config |-> NoConfig, header |-> <<>>, earlier |-> {}]
NoHandler ==
    [installed |-> FALSE, config |-> NoConfig, received |-> FALSE,
     incoming |-> <<>>, outgoing |-> <<>>]

-----------------------------------------------------------------------------
(* BoundedLRUCache (cacheManager.ts, kept as src/unnamed/part_001).        *)
(* The Map the class keeps is the sequence of its entries in insertion     *)
(* order, which is the order a JavaScript Map iterates in: each element is *)
(* [key, value, timestamp].  A cache object is [maxSize, maxAge, cache].   *)

JSBoolean(b) == [k |-> "boolean", s |-> <<>>, n |-> IF b THEN 1 ELSE 0, d |-> 1]

\* Map.prototype.has
MapHas(m, key) == \E i \in 1..Len(m) : m[i].key = key

\* Map.prototype.get of a key the map has
MapGet(m, key) == m[CHOOSE i \in 1..Len(m) : m[i].key = key]

\* Map.prototype.delete: the other entries keep their order
MapDelete(m, key) == SelectSeq(m, LAMBDA e : e.key # key)

\* Map.prototype.set: a key the map has keeps its place, a new key goes last
MapSet(m, key, value, timestamp) ==
    LET e == [key |-> key, value |-> value, timestamp |-> timestamp]
    IN  IF MapHas(m, key)
        THEN [i \in 1..Len(m) |-> IF m[i].key = key THEN e ELSE m[i]]
        ELSE Append(m, e)

\* this.cache.keys().next().value: undefined when the map is empty
MapFirstKey(m) == IF m = <<>> THEN JSUndefined ELSE m[1].key

\* no BoundedLRUCache has been constructed
NoCache == [constructed |-> FALSE, maxSize |-> 0, maxAge |-> 0, cache |-> <<>>]

\* the constructor: [completion, cache object]
BoundedLRUCache(maxSize, maxAge) ==
    IF maxSize <= 0 THEN [completion |-> "throw", object |-> NoCache]
    ELSE IF maxAge <= 0 THEN [completion |-> "throw", object |-> NoCache]
    ELSE [completion |-> "normal",
          object |-> [constructed |-> TRUE, maxSize |-> maxSize,
                      maxAge |-> maxAge, cache |-> <<>>]]

\* get(key) stamping the entry it found with the current time
get_renewsTimestamp(c, key, now) ==
    IF ~MapHas(c.cache, key)
    THEN [cache |-> c.cache, ret |-> JSUndefined]
    ELSE LET entry == MapGet(c.cache, key)
         IN  IF now - entry.timestamp > c.maxAge
             THEN [cache |-> MapDelete(c.cache, key), ret |-> JSUndefined]
             ELSE [cache |-> MapSet(MapDelete(c.cache, key), key,
                                    entry.value, now),
                   ret |-> entry.value]

\* get(key) leaving the entry at its place in the Map
get_keepsPlace(c, key, now) ==
    IF ~MapHas(c.cache, key)
    THEN [cache |-> c.cache, ret |-> JSUndefined]
    ELSE LET entry == MapGet(c.cache, key)
         IN  IF now - entry.timestamp > c.maxAge
             THEN [cache |-> MapDelete(c.cache, key), ret |-> JSUndefined]
             ELSE [cache |-> c.cache, ret |-> entry.value]

\* get(key) with an entry expiring as soon as its age reaches maxAge
get_expiresAtMaxAge(c, key, now) ==
    IF ~MapHas(c.cache, key)
    THEN [cache |-> c.cache, ret |-> JSUndefined]
    ELSE LET entry == MapGet(c.cache, key)
         IN  IF now - entry.timestamp >= c.maxAge
             THEN [cache |-> MapDelete(c.cache, key), ret |-> JSUndefined]
             ELSE [cache |-> MapSet(MapDelete(c.cache, key), key,
                                    entry.value, entry.timestamp),
                   ret |-> entry.value]

\* get(key): [the Map afterwards, the value returned]
get(c, key, now) ==
    IF ~MapHas(c.cache, key)
    THEN [cache |-> c.cache, ret |-> JSUndefined]
    ELSE LET entry == MapGet(c.cache, key)
         IN  IF now - entry.timestamp > c.maxAge
             THEN [cache |-> MapDelete(c.cache, key), ret |-> JSUndefined]
             ELSE [cache |-> MapSet(MapDelete(c.cache, key), key,
                                    entry.value, entry.timestamp),
                   ret |-> entry.value]

\* set(key, value): the Map afterwards
set(c, key, value, now) ==
    LET without == IF MapHas(c.cache, key) THEN MapDelete(c.cache, key)
                   ELSE c.cache
        oldestKey == MapFirstKey(without)
        room == IF Len(without) >= c.maxSize
                THEN IF oldestKey # JSUndefined
                     THEN MapDelete(without, oldestKey)
                     ELSE without
                ELSE without
    IN  MapSet(room, key, value, now)

\* delete(key): [the Map afterwards, the boolean returned]
delete(c, key) ==
    [cache |-> MapDelete(c.cache, key), ret |-> JSBoolean(MapHas(c.cache, key))]

\* clear()
clear(c) == <<>>

\* the getter size
size(c) == Len(c.cache)

\* has(key)
has(c, key) == MapHas(c.cache, key)

\* cleanup() removing an entry as soon as its age reaches maxAge
cleanup_atMaxAge(c, now) ==
    SelectSeq(c.cache, LAMBDA e : ~(now - e.timestamp >= c.maxAge))

\* cleanup(): the Map afterwards
cleanup(c, now) ==
    SelectSeq(c.cache, LAMBDA e : ~(now - e.timestamp > c.maxAge))

\* keys(): least recently used first
keys(c) == [i \in 1..Len(c.cache) |-> c.cache[i].key]

\* before any call on the cache
NoCacheCall == [op |-> "none", key |-> JSUndefined, value |-> JSUndefined,
                ret |-> JSUndefined, completion |-> "normal"]

-----------------------------------------------------------------------------
(* The IPC client of the renderer (ipcClientWithTimeout.ts).               *)
(* A promise is [state, result, error]; an error value is                  *)
(* [type, channel, timeoutMs, message], and a thrown value that is no      *)
(* Error has the type "string".  A call of withTimeout is the record of    *)
(* the promise it was given, its timer and the promise it returned.        *)

DEFAULT_IPC_TIMEOUT == 30000

NoError == [type |-> "none", channel |-> "", timeoutMs |-> 0, message |-> <<>>]

\* new IPCTimeoutError(channel, timeoutMs)
IPCTimeoutError(channel, timeoutMs) ==
    [type |-> "IPCTimeoutError", channel |-> channel, timeoutMs |-> timeoutMs,
     message |-> <<"IPC call to '", channel, "' timed out after ", timeoutMs, "ms">>]

\* error instanceof IPCTimeoutError, error instanceof Error
IsIPCTimeoutError(error) == error.type = "IPCTimeoutError"
IsError(error) == error.type \in {"Error", "IPCTimeoutError"}

\* new Error(String(error)) of a thrown value that is no Error
ErrorOf(error) == [error EXCEPT !.type = "Error"]

Pending == [state |-> "pending", result |-> "", error |-> NoError]

\* the resolve and reject functions of a promise: a settled promise stays
Resolve(p, result) ==
    IF p.state = "pending" THEN [Pending EXCEPT !.state = "fulfilled", !.result = result]
    ELSE p
Reject(p, error) ==
    IF p.state = "pending" THEN [Pending EXCEPT !.state = "rejected", !.error = error]
    ELSE p

\* clearTimeout: a timer that fired or was cleared stays as it is
ClearTimeout(timer) == IF timer = "armed" THEN "cleared" ELSE timer

\* withTimeout(promise, timeoutMs, channel): the timer is set, the callbacks
\* are registered and the new promise is returned
withTimeout(promise, timeoutMs, channel) ==
    [promise |-> promise, timer |-> "armed", returned |-> Pending,
     timeoutMs |-> timeoutMs, channel |-> channel]

\* the callback of setTimeout without its call of reject
onTimeout_silent(w) == [w EXCEPT !.timer = "fired"]

\* the callback of setTimeout in withTimeout
onTimeout(w) ==
    [w EXCEPT !.timer = "fired",
              !.returned = Reject(w.returned, IPCTimeoutError(w.channel, w.timeoutMs))]

\* the callback of promise.then whose result replaces a timeout already
\* delivered
onFulfilled_lateWins(w, result) ==
    [w EXCEPT !.promise = Resolve(w.promise, result),
              !.timer = ClearTimeout(w.timer),
              !.returned = Resolve(Pending, result)]

\* the callback of promise.then without its call of clearTimeout
onFulfilled_keepsTimer(w, result) ==
    [w EXCEPT !.promise = Resolve(w.promise, result),
              !.returned = Resolve(w.returned, result)]

\* the callback of promise.then in withTimeout
onFulfilled(w, result) ==
    [w EXCEPT !.promise = Resolve(w.promise, result),
              !.timer = ClearTimeout(w.timer),
              !.returned = Resolve(w.returned, result)]

\* the callback of .catch in withTimeout
onRejected(w, error) ==
    [w EXCEPT !.promise = Reject(w.promise, error),
              !.timer = ClearTimeout(w.timer),
              !.returned = Reject(w.returned, error)]

\* no call of invokeWithTimeout has been made
NoClient ==
    [pc |-> "idle", channel |-> "", timeout |-> 0, retries |-> 0, retryDelay |-> 0,
     maxAttempts |-> 0, attempts |-> 0, lastError |-> NoError,
     invocations |-> 0, calls |-> <<>>, delay |-> "none", outcome |-> Pending]

\* the options of a call with their defaults
OptionsOf(options) ==
    [timeout |-> IF options.timeout = JSUndefined THEN DEFAULT_IPC_TIMEOUT
                 ELSE options.timeout.n,
     retries |-> IF options.retries = JSUndefined THEN 0 ELSE options.retries.n,
     retryDelay |-> IF options.retryDelay = JSUndefined THEN 1000
                    ELSE options.retryDelay.n]

\* the catch block retrying after any error
catch_retriesAnyError(c, error) ==
    LET d == [c EXCEPT !.lastError = IF IsError(error) THEN error ELSE ErrorOf(error)]
    IN  IF d.attempts < d.maxAttempts
        THEN [d EXCEPT !.pc = "delaying", !.delay = "armed"]
        ELSE [d EXCEPT !.pc = "settled", !.outcome = Reject(d.outcome, error)]

\* the catch block of the loop: wait and go round again, or throw
catch(c, error) ==
    LET d == [c EXCEPT !.lastError = IF IsError(error) THEN error ELSE ErrorOf(error)]
    IN  IF IsIPCTimeoutError(error) /\ d.attempts < d.maxAttempts
        THEN [d EXCEPT !.pc = "delaying", !.delay = "armed"]
        ELSE [d EXCEPT !.pc = "settled", !.outcome = Reject(d.outcome, error)]

\* the head of the loop and the call in the try block; invoked is what
\* invokeFunction() does: it returns a pending promise or throws a value
while(c, invoked) ==
    IF c.attempts < c.maxAttempts
    THEN LET d == [c EXCEPT !.attempts = c.attempts + 1, !.delay = "none",
                            !.invocations = c.invocations + 1]
         IN  IF invoked.throws
             THEN catch(d, invoked.error)
             ELSE [d EXCEPT !.pc = "awaiting",
                            !.calls = Append(d.calls,
                                             withTimeout(Pending, d.timeout, d.channel))]
    ELSE [c EXCEPT !.pc = "settled",
                   !.outcome = Reject(c.outcome,
                                 IF c.lastError # NoError THEN c.lastError
                                 ELSE [type |-> "Error", channel |-> c.channel,
                                       timeoutMs |-> 0,
                                       message |-> <<"IPC call to '", c.channel,
                                                     "' failed after ",
                                                     c.maxAttempts, " attempts">>])]

\* invokeWithTimeout counting the retries after two first attempts
invokeWithTimeout_extraAttempt(invoked, channel, options) ==
    LET o == OptionsOf(options)
    IN  while([NoClient EXCEPT !.channel = channel, !.timeout = o.timeout,
                               !.retries = o.retries, !.retryDelay = o.retryDelay,
                               !.maxAttempts = o.retries + 2],
              invoked)

\* invokeWithTimeout(invokeFunction, channel, options) up to its first await
invokeWithTimeout(invoked, channel, options) ==
    LET o == OptionsOf(options)
    IN  while([NoClient EXCEPT !.channel = channel, !.timeout = o.timeout,
                               !.retries = o.retries, !.retryDelay = o.retryDelay,
                               !.maxAttempts = o.retries + 1],
              invoked)

\* the await of the promise withTimeout returned has its answer
await(c) ==
    IF c.pc # "awaiting" THEN c
    ELSE LET w == c.calls[Len(c.calls)]
         IN  IF w.returned.state = "pending" THEN c
             ELSE IF w.returned.state = "fulfilled"
             THEN [c EXCEPT !.pc = "settled",
                            !.outcome = Resolve(c.outcome, w.returned.result)]
             ELSE catch(c, w.returned.error)

-----------------------------------------------------------------------------
(* validateIPCSender (commandValidator.ts, kept as src/unnamed/part_000).  *)

\* validateIPCSender(event), given the string event.sender.getURL() returns
validateIPCSender(url) ==
    \/ StartsWith(url, <<"f", "i", "l", "e", ":", "/", "/">>)
    \/ StartsWith(url, <<"h", "t", "t", "p", ":", "/", "/", "l", "o", "c", "a", "l", "h", "o", "s", "t">>)

-----------------------------------------------------------------------------
(* CacheManager (cacheManager.ts, kept as src/unnamed/part_001): a         *)
(* BoundedLRUCache and the interval timer that cleans it.  handle is the   *)
(* field this.cleanupInterval, timer is the timer of the event loop it     *)
(* names, and stopCalled records that stopCleanup has been called.         *)

NoInterval ==
    [handle |-> "null", timer |-> "none", intervalMs |-> 0, stopCalled |-> FALSE]

\* clearInterval
ClearInterval(ci) == IF ci.timer = "running" THEN [ci EXCEPT !.timer = "cleared"] ELSE ci

\* startCleanup(intervalMs)
startCleanup(ci, intervalMs) ==
    LET cleared == IF ci.handle # "null" THEN ClearInterval(ci) ELSE ci
    IN  [cleared EXCEPT !.handle = "Timeout", !.timer = "running",
                        !.intervalMs = intervalMs]

\* stopCleanup() that forgets the handle and leaves the timer running
stopCleanup_keepsTimer(ci) ==
    IF ci.handle # "null"
    THEN [ci EXCEPT !.handle = "null"]
    ELSE ci

\* stopCleanup()
stopCleanup(ci) ==
    IF ci.handle # "null"
    THEN [ClearInterval(ci) EXCEPT !.handle = "null"]
    ELSE ci

\* the constructor: [completion, cache object, cleanup timer]
CacheManager(maxSize, maxAge, cleanupIntervalMs) ==
    LET r == BoundedLRUCache(maxSize, maxAge)
    IN  IF r.completion = "throw"
        THEN [completion |-> "throw", object |-> NoCache,
              cleanupInterval |-> NoInterval]
        ELSE [completion |-> "normal", object |-> r.object,
              cleanupInterval |-> startCleanup(NoInterval, cleanupIntervalMs)]

-----------------------------------------------------------------------------
(* The inputs of the calls.                                                *)

EscapeInputs ==
    {JSString(s) : s \in Strings(CoreChars, MaxLen) \cup Strings(AllChars, MaxWideLen)}
        \cup NonStrings

\* first tokens of the command lines: the ten allowed names and near misses
BaseTokens ==
    {ALLOWED_COMMANDS[i] : i \in 1..Len(ALLOWED_COMMANDS)}
        \cup { <<"r", "m">>, <<"N", "P", "M">>, <<"n", "p">>, <<"n", "p", "m", "x">>,
               <<"r", "m", ";">>, <<"n", "p", "m", ";">>, <<"$", "n", "p", "m">> }

Separators == { <<" ">>, <<" ", "\t">> }
FirstArgs == Strings(AllChars, MaxCmdArgLen) \ {<<>>}
SecondArgs == { <<"b">>, <<"$">> }
Paddings == { <<<<>>, <<>>>>, <<<<" ">>, <<"\t", " ">>>> }

CommandTails ==
    {<<>>}
        \cup {sep \o a : sep \in Separators, a \in FirstArgs}
        \cup {sep \o a \o <<" ">> \o b :
                sep \in Separators, a \in FirstArgs, b \in SecondArgs}

CommandInputs ==
    {JSString(pad[1] \o base \o tail \o pad[2]) :
        pad \in Paddings, base \in BaseTokens, tail \in CommandTails}
        \cup {JSString(<<>>), JSString(<<" ">>), JSString(<<" ", "\t">>)}
        \cup NonStrings

NameInputs ==
    {JSString(s) : s \in Strings(NameChars, MaxNameLen)
                        \cup Strings(NameWideChars, MaxWideLen)}
        \cup NonStrings

PidInputs ==
    {JSNumber(n) : n \in (0 - MaxPid)..MaxPid}
        \cup {JSFraction(n, 2) : n \in (0 - MaxPid)..MaxPid}
        \cup {JSNaN, JSInfinity, JSMinusInfinity, JSUndefined, JSNull, JSObject,
              JSArray, JSString(<<"1">>), JSString(<<>>)}

PathInputs == {JSString(s) : s \in Strings(PathChars, MaxPathLen)} \cup NonStrings

ManagerWords ==
    { <<"n", "p", "m">>, <<"N", "P", "M">>, <<"N", "p", "m">>, <<"p", "i", "p">>,
      <<"P", "i", "P">>, <<"c", "o", "m", "p", "o", "s", "e", "r">>,
      <<"C", "O", "M", "P", "O", "S", "E", "R">>, <<"y", "a", "r", "n">>,
      <<"n", "p", "m", "x">>, <<"n", "p", " ", "m">>, <<"p", "i", "p", "3">>, <<>> }

ManagerInputs ==
    {JSString(pad[1] \o w \o pad[2]) : pad \in Paddings, w \in ManagerWords}
        \cup NonStrings

\* what a caller puts into the array it was handed
PushedCommands == { <<"r", "m">>, <<"c", "u", "r", "l">> }

\* the requests the front end sends to the two channels
IpcManagers ==
    {JSString(<<"n", "p", "m">>), JSString(<<" ", "P", "I", "P">>),
     JSString(<<"y", "a", "r", "n">>), JSNull}

IpcNames ==
    {JSString(<<"a">>), JSString(<<"@", "a", "/", "b">>), JSString(<<"a", ";", "b">>),
     JSString(<<"$", "(", "a", ")">>), JSString(<<"A", ".", "b">>),
     JSString(<<"a", " ", "b">>), JSString(<<>>), JSUndefined}

IpcPaths ==
    {JSString(<<"a">>), JSString(<<"a", "/", "b", " ">>), JSString(<<"a", ";", "b">>),
     JSString(<<"a", " ", "|", " ", "b">>), JSString(<<".", ".", "/", "a">>),
     JSString(<<"$", "a">>), JSNull}

IpcRequests ==
    {[channel |-> "install", params |-> <<m, n>>] : m \in IpcManagers, n \in IpcNames}
        \cup {[channel |-> "run", params |-> <<p>>] : p \in IpcPaths}

\* the configs given to generateCSPHeader and to applyToWindow
Nonces ==
    {JSUndefined, JSString(<<>>),
     JSString(<<"t", "e", "s", "t", "-", "n", "o", "n", "c", "e">>),
     JSString(<<"A", "b", "C", "+", "/", "w", "=", "=">>),
     JSString(
    <<"x", "'", " ", "'", "u", "n", "s", "a", "f", "e", "-", "i", "n", "l",
      "i", "n", "e">>)}

DevServerUrls ==
    {JSUndefined,
     JSString(
    <<"h", "t", "t", "p", ":", "/", "/", "l", "o", "c", "a", "l", "h", "o",
      "s", "t", ":", "5", "1", "7", "3">>),
     JSString(
    <<"h", "t", "t", "p", "s", ":", "/", "/", "d", "e", "v", ".", "t", "e",
      "s", "t">>)}

Configs ==
    {[isDevelopment |-> d, nonce |-> n, devServerUrl |-> u] :
        d \in BOOLEAN, n \in Nonces, u \in DevServerUrls}

WindowConfigs ==
    {c \in Configs :
        /\ c.nonce \in {JSUndefined, JSString(<<"t", "e", "s", "t", "-", "n", "o", "n", "c", "e">>)}
        /\ c.devServerUrl = JSUndefined}

\* the header maps of the responses that come in
OldPolicy == <<"o", "l", "d">>
TextHtml == <<"text/html">>
ResponseHeaders ==
    { <<>>,
      [k \in {"Content-Type"} |-> TextHtml],
      [k \in {"Content-Type", "X-Custom-Header"} |->
          IF k = "Content-Type" THEN TextHtml ELSE <<"custom-value", "second-value">>],
      [k \in {"Content-Type", "Content-Security-Policy"} |->
          IF k = "Content-Type" THEN TextHtml ELSE <<OldPolicy>>],
      [k \in {"Content-Security-Policy"} |-> <<OldPolicy, Self>>],
      [k \in {"content-security-policy", "Set-Cookie"} |->
          IF k = "Set-Cookie" THEN <<"a=1", "b=2">> ELSE <<OldPolicy>>] }

\* the keys and the values given to the cache; K is any JavaScript type
CacheKeys == {JSUndefined, JSString(<<"a">>), JSString(<<"b">>)}
CacheValues == {JSNumber(1), JSNumber(2)}

\* what a call of invokeFunction() does at once: it returns a promise that
\* is pending, or it throws
ThrownValues ==
    {[NoError EXCEPT !.type = "Error", !.message = <<"Non-timeout error">>],
     IPCTimeoutError("test", 10),
     [NoError EXCEPT !.type = "string", !.message = <<"boom">>]}
Invocations ==
    {[throws |-> FALSE, error |-> NoError]}
    \cup {[throws |-> TRUE, error |-> e] : e \in ThrownValues}

\* what the promise of invokeFunction() may settle with
IpcResults == {"result", "success"}

\* the options invokeWithTimeout is called with
IpcCallOptions ==
    [timeout : {JSUndefined, JSNumber(50)},
     retries : {JSUndefined} \cup {JSNumber(n) : n \in -1..MaxRetries},
     retryDelay : {JSUndefined, JSNumber(10)}]

\* the URLs the sender of an IPC message may have loaded
SenderUrls ==
    {<<"f", "i", "l", "e", ":", "/", "/", "/", "a", "p", "p", "/", "i",
       "n", "d", "e", "x", ".", "h", "t", "m", "l">>,
     <<"h", "t", "t", "p", ":", "/", "/", "l", "o", "c", "a", "l", "h",
       "o", "s", "t", ":", "5", "1", "7", "3", "/">>,
     <<"h", "t", "t", "p", ":", "/", "/", "l", "o", "c", "a", "l", "h",
       "o", "s", "t", "/">>,
     <<"h", "t", "t", "p", ":", "/", "/", "l", "o", "c", "a", "l", "h",
       "o", "s", "t", ".", "e", "v", "i", "l", ".", "c", "o", "m", "/">>,
     <<"h", "t", "t", "p", ":", "/", "/", "l", "o", "c", "a", "l", "h",
       "o", "s", "t", "@", "e", "v", "i", "l", ".", "c", "o", "m", "/">>,
     <<"h", "t", "t", "p", "s", ":", "/", "/", "l", "o", "c", "a", "l",
       "h", "o", "s", "t", "/">>,
     <<"h", "t", "t", "p", "s", ":", "/", "/", "e", "v", "i", "l", ".",
       "c", "o", "m", "/">>,
     <<"h", "t", "t", "p", ":", "/", "/", "e", "v", "i", "l", ".", "c",
       "o", "m", "/", "h", "t", "t", "p", ":", "/", "/", "l", "o", "c",
       "a", "l", "h", "o", "s", "t">>,
     <<"h", "t", "t", "p", ":", "/", "/", "1", "2", "7", ".", "0", ".",
       "0", ".", "1", ":", "5", "1", "7", "3", "/">>,
     <<"a", "b", "o", "u", "t", ":", "b", "l", "a", "n", "k">>,
     <<>>}

\* the keys and the value given to the CacheManager
ManagerKeys == {JSString(<<"a">>), JSString(<<"b">>)}
ManagerValues == {JSNumber(1)}

\* the data of a success response: nothing, null, the empty array and
\* values of the other kinds
ResponseData ==
    {JSUndefined, JSNull, JSArray, JSObject, JSNumber(0), JSString(<<>>),
     JSBoolean(FALSE)}

\* the message and the details of an error response
ResponseMessages == {<<>>, <<"b", "o", "o", "m">>}
ResponseDetails == {JSUndefined, JSObject}

-----------------------------------------------------------------------------
(* The state machine: the main process handles one call at a time, each    *)
(* call runs to completion, and the module-level objects outlive the call. *)
(* Spec is the validation methods called one after another, SpecCaller     *)
(* getAllowedCommands with a caller that works on what it returned, and    *)
(* SpecSites the calls of several call sites in flight together.           *)

RegExpNames ==
    {"DANGEROUS_PATTERNS", "NPM_PACKAGE_PATTERN", "PIP_PACKAGE_PATTERN",
     "PATH_TRAVERSAL_PATTERN"}

Sites == 1..NumSites
IdleSite == [status |-> "idle", op |-> "none", arg |-> JSUndefined, ret |-> JSUndefined]

Init ==
    /\ op = "none"
    /\ arg = JSUndefined
    /\ ret = JSUndefined
    /\ allowedCommands = ALLOWED_COMMANDS
    /\ validPackageManagers = VALID_PACKAGE_MANAGERS
    /\ lastIndex = [r \in RegExpNames |-> 0]
    /\ held = FALSE
    /\ site = [s \in Sites |-> IdleSite]
    /\ completion = "normal"
    /\ ipc = IpcIdle
    /\ cspPolicy = CSP_POLICY
    /\ cspCall = NoCall
    /\ webRequest = NoHandler
    /\ cache = NoCache
    /\ clock = 0
    /\ cacheCall = NoCacheCall
    /\ recency = <<>>
    /\ client = NoClient
    /\ cleanupInterval = NoInterval
    /\ ipcResponse = NoResponse

ValidateCommand ==
    /\ op = "none"
    /\ \E c \in CommandInputs :
          LET r == validateCommand(c, allowedCommands, lastIndex)
          IN  /\ op' = "validateCommand"
              /\ arg' = c
              /\ completion' = validateCommandCompletion(c)
              /\ ret' = Returned(completion', r.ret)
              /\ lastIndex' = r.lastIndex
    /\ UNCHANGED <<allowedCommands, validPackageManagers, held, site>>
    /\ UNCHANGED otherComponents

ContainsDangerousChars ==
    /\ op = "none"
    /\ \E x \in EscapeInputs :
          LET r == containsDangerousChars(x, lastIndex)
          IN  /\ op' = "containsDangerousChars"
              /\ arg' = x
              /\ completion' = containsDangerousCharsCompletion(x)
              /\ ret' = Returned(completion', r.ret)
              /\ lastIndex' = r.lastIndex
    /\ UNCHANGED <<allowedCommands, validPackageManagers, held, site>>
    /\ UNCHANGED otherComponents

EscapeArgument ==
    /\ op = "none"
    /\ \E x \in EscapeInputs :
          /\ op' = "escapeArgument"
          /\ arg' = x
          /\ completion' = escapeArgumentCompletion(x)
          /\ ret' = Returned(completion', escapeArgument(x))
    /\ UNCHANGED <<allowedCommands, validPackageManagers, lastIndex, held,
                   site>>
    /\ UNCHANGED otherComponents

GetAllowedCommands ==
    /\ op = "none"
    /\ op' = "getAllowedCommands"
    /\ arg' = JSUndefined
    /\ ret' = getAllowedCommands
    /\ completion' = "normal"
    /\ held' = TRUE
    /\ UNCHANGED <<allowedCommands, validPackageManagers, lastIndex, site>>
    /\ UNCHANGED otherComponents

ValidatePackageName ==
    /\ op = "none"
    /\ \E x \in NameInputs :
          LET r == validatePackageName(x, lastIndex)
          IN  /\ op' = "validatePackageName"
              /\ arg' = x
              /\ completion' = validatePackageNameCompletion(x)
              /\ ret' = Returned(completion', r.ret)
              /\ lastIndex' = r.lastIndex
    /\ UNCHANGED <<allowedCommands, validPackageManagers, held, site>>
    /\ UNCHANGED otherComponents

ValidatePID ==
    /\ op = "none"
    /\ \E x \in PidInputs :
          /\ op' = "validatePID"
          /\ arg' = x
          /\ completion' = validatePIDCompletion(x)
          /\ ret' = Returned(completion', validatePID(x))
    /\ UNCHANGED <<allowedCommands, validPackageManagers, lastIndex, held,
                   site>>
    /\ UNCHANGED otherComponents

ValidatePath ==
    /\ op = "none"
    /\ \E x \in PathInputs :
          LET r == validatePath(x, lastIndex)
          IN  /\ op' = "validatePath"
              /\ arg' = x
              /\ completion' = validatePathCompletion(x)
              /\ ret' = Returned(completion', r.ret)
              /\ lastIndex' = r.lastIndex
    /\ UNCHANGED <<allowedCommands, validPackageManagers, held, site>>
    /\ UNCHANGED otherComponents

ValidatePackageManager ==
    /\ op = "none"
    /\ \E x \in ManagerInputs :
          /\ op' = "validatePackageManager"
          /\ arg' = x
          /\ completion' = validatePackageManagerCompletion(x)
          /\ ret' = Returned(completion', validatePackageManager(x, validPackageManagers))
    /\ UNCHANGED <<allowedCommands, validPackageManagers, lastIndex, held,
                   site>>
    /\ UNCHANGED otherComponents

\* the call returns to its call site, which is then free for the next call
Return ==
    /\ op # "none"
    /\ op' = "none"
    /\ arg' = JSUndefined
    /\ ret' = JSUndefined
    /\ completion' = "normal"
    /\ UNCHANGED <<allowedCommands, validPackageManagers, lastIndex, held,
                   site>>
    /\ UNCHANGED otherComponents

\* an IPC message arrives and its sender is checked
ValidateIPCSender ==
    /\ op = "none"
    /\ \E url \in SenderUrls :
          /\ op' = "validateIPCSender"
          /\ arg' = JSString(url)
          /\ completion' = "normal"
          /\ ret' = validateIPCSender(url)
    /\ UNCHANGED <<allowedCommands, validPackageManagers, lastIndex, held, site>>
    /\ UNCHANGED otherComponents

Next ==
    \/ ValidateCommand
    \/ ContainsDangerousChars
    \/ EscapeArgument
    \/ ValidatePackageName
    \/ ValidatePID
    \/ ValidatePath
    \/ ValidatePackageManager
    \/ ValidateIPCSender
    \/ Return

Spec == Init /\ [][Next]_vars

-----------------------------------------------------------------------------
(* A caller that works on the array getAllowedCommands handed out.         *)

\* commands.push(x)
CallerPush ==
    /\ held /\ ~ALLOWED_COMMANDS_frozen
    /\ op = "none"
    /\ Len(allowedCommands) < MaxArrayLen
    /\ \E x \in PushedCommands : allowedCommands' = Append(allowedCommands, x)
    /\ UNCHANGED <<op, arg, ret, validPackageManagers, lastIndex, held, site,
                   completion>>
    /\ UNCHANGED otherComponents

\* commands.pop()
CallerPop ==
    /\ held /\ ~ALLOWED_COMMANDS_frozen
    /\ op = "none"
    /\ Len(allowedCommands) >= Len(ALLOWED_COMMANDS)
    /\ allowedCommands' = SubSeq(allowedCommands, 1, Len(allowedCommands) - 1)
    /\ UNCHANGED <<op, arg, ret, validPackageManagers, lastIndex, held, site,
                   completion>>
    /\ UNCHANGED otherComponents

NextCaller ==
    \/ GetAllowedCommands
    \/ ValidateCommand
    \/ Return
    \/ CallerPush
    \/ CallerPop

SpecCaller == Init /\ [][NextCaller]_vars

-----------------------------------------------------------------------------
(* Calls from several IPC call sites.  A request waits until the main      *)
(* process takes it up; each method is synchronous, so a call that was     *)
(* taken up runs to its return before the next one starts, in any order    *)
(* of the waiting requests.                                                *)

\* the method named o applied to a, with the module-level objects as they
\* are at the call: the returned value and every lastIndex after the call
RunCall(o, a, allowed, managers, li) ==
    CASE o = "validateCommand" -> validateCommand(a, allowed, li)
      [] o = "containsDangerousChars" -> containsDangerousChars(a, li)
      [] o = "escapeArgument" -> [ret |-> escapeArgument(a), lastIndex |-> li]
      [] o = "validatePackageName" -> validatePackageName(a, li)
      [] o = "validatePID" -> [ret |-> validatePID(a), lastIndex |-> li]
      [] o = "validatePath" -> validatePath(a, li)
      [] o = "validatePackageManager" ->
            [ret |-> validatePackageManager(a, managers), lastIndex |-> li]

\* the calls the call sites make
ProbeCalls ==
    { [op |-> "containsDangerousChars", arg |-> JSString(<<"a", ";">>)],
      [op |-> "containsDangerousChars", arg |-> JSString(<<";">>)],
      [op |-> "validateCommand", arg |-> JSString(<<"n", "p", "m", " ", "a">>)],
      [op |-> "validateCommand", arg |-> JSString(<<"n", "p", "m", " ", "$">>)],
      [op |-> "escapeArgument", arg |-> JSString(<<";">>)],
      [op |-> "validatePackageName", arg |-> JSString(<<"a", "A">>)],
      [op |-> "validatePackageName", arg |-> JSString(<<"a", "/">>)],
      [op |-> "validatePID", arg |-> JSNumber(1)],
      [op |-> "validatePath", arg |-> JSString(<<"a", ".", ".">>)],
      [op |-> "validatePath", arg |-> JSString(<<".", "a">>)],
      [op |-> "validatePackageManager", arg |-> JSString(<<"N", "P", "M">>)] }

\* a call site sends its request
Request(s) ==
    /\ site[s].status = "idle"
    /\ \E c \in ProbeCalls :
          site' = [site EXCEPT ![s] = [status |-> "requested", op |-> c.op,
                                       arg |-> c.arg, ret |-> JSUndefined]]
    /\ UNCHANGED <<op, arg, ret, allowedCommands, validPackageManagers,
                   lastIndex, held, completion>>
    /\ UNCHANGED otherComponents

\* the main process runs the requested method to its return
Handle(s) ==
    /\ site[s].status = "requested"
    /\ LET r == RunCall(site[s].op, site[s].arg, allowedCommands,
                        validPackageManagers, lastIndex)
       IN  /\ site' = [site EXCEPT ![s].status = "returned", ![s].ret = r.ret]
           /\ lastIndex' = r.lastIndex
    /\ UNCHANGED <<op, arg, ret, allowedCommands, validPackageManagers, held,
                   completion>>
    /\ UNCHANGED otherComponents

\* the call site takes its result
Collect(s) ==
    /\ site[s].status = "returned"
    /\ site' = [site EXCEPT ![s] = IdleSite]
    /\ UNCHANGED <<op, arg, ret, allowedCommands, validPackageManagers,
                   lastIndex, held, completion>>
    /\ UNCHANGED otherComponents

NextSites == \E s \in Sites : Request(s) \/ Handle(s) \/ Collect(s)

SpecSites == Init /\ [][NextSites]_vars

-----------------------------------------------------------------------------
(* The IPC command-execution handler, a step at a time.                    *)

\* a request arrives
IpcReceive ==
    /\ ipc.pc = "idle"
    /\ \E request \in IpcRequests :
          ipc' = [IpcIdle EXCEPT !.pc = "received", !.request = request]
    /\ UNCHANGED <<op, arg, ret, allowedCommands, validPackageManagers,
                   lastIndex,
                   held, site, completion, cspPolicy, cspCall, webRequest,
                   utilityComponents>>

\* every parameter goes through InputValidator; the first invalid outcome
\* ends the request with an error response
IpcValidateParameters ==
    /\ ipc.pc = "received"
    /\ LET v == ValidateParameters(ipc.request, validPackageManagers, lastIndex)
       IN  /\ lastIndex' = v.lastIndex
           /\ IF v.valid
              THEN ipc' = [ipc EXCEPT !.pc = "validated", !.values = v.values]
              ELSE \E now \in Clock :
                      ipc' = [ipc EXCEPT
                                 !.pc = "responded",
                                 !.response = createErrorResponse(
                                     "VALIDATION_ERROR", v.error, JSUndefined, now)]
    /\ UNCHANGED <<op, arg, ret, allowedCommands, validPackageManagers, held,
                   site,
                   completion, cspPolicy, cspCall, webRequest,
                   utilityComponents>>

\* the assembled command goes through validateCommand; an invalid outcome
\* is logged as a warning and ends the request with an error response
IpcValidateCommand ==
    /\ ipc.pc = "validated"
    /\ LET r == validateCommand(JSString(Assemble(ipc.request.channel, ipc.values)),
                                allowedCommands, lastIndex)
       IN  /\ lastIndex' = r.lastIndex
           /\ IF r.ret.valid
              THEN ipc' = [ipc EXCEPT !.pc = "checked",
                                      !.command = r.ret.sanitizedCommand]
              ELSE \E now \in Clock :
                      ipc' = [ipc EXCEPT
                                 !.pc = "responded",
                                 !.warned = TRUE,
                                 !.response = createErrorResponse(
                                     "VALIDATION_ERROR", r.ret.error, JSUndefined, now)]
    /\ UNCHANGED <<op, arg, ret, allowedCommands, validPackageManagers, held,
                   site,
                   completion, cspPolicy, cspCall, webRequest,
                   utilityComponents>>

\* the accepted command is executed and the request answered
IpcExecute ==
    /\ ipc.pc = "checked"
    /\ \E now \in Clock :
          ipc' = [ipc EXCEPT !.pc = "responded",
                             !.executed = <<ipc.command>>,
                             !.response = createSuccessResponse(ipc.command, now)]
    /\ UNCHANGED <<op, arg, ret, allowedCommands, validPackageManagers,
                   lastIndex,
                   held, site, completion, cspPolicy, cspCall, webRequest,
                   utilityComponents>>

\* the response goes back to the caller
IpcReply ==
    /\ ipc.pc = "responded"
    /\ ipc' = IpcIdle
    /\ UNCHANGED <<op, arg, ret, allowedCommands, validPackageManagers,
                   lastIndex,
                   held, site, completion, cspPolicy, cspCall, webRequest,
                   utilityComponents>>

NextHandler ==
    \/ IpcReceive
    \/ IpcValidateParameters
    \/ IpcValidateCommand
    \/ IpcExecute
    \/ IpcReply

SpecHandler == Init /\ [][NextHandler]_vars

-----------------------------------------------------------------------------
(* The CSP manager: calls of generateCSPHeader, applyToWindow, and the     *)
(* responses that reach the installed handler.                             *)

\* what a config supplies: a nonce, development origins
Supplied(config) ==
    (IF IsSet(config.nonce) THEN {"nonce"} ELSE {})
        \cup (IF config.isDevelopment THEN {"dev"} ELSE {})

GenerateCSPHeader ==
    /\ \E config \in Configs :
          LET r == generateCSPHeader(config, cspPolicy)
          IN  /\ cspCall' = [made |-> TRUE, config |-> config, header |-> r.header,
                             earlier |-> IF cspCall.made
                                         THEN Supplied(cspCall.config)
                                         ELSE {}]
              /\ cspPolicy' = r.policy
    /\ UNCHANGED <<op, arg, ret, allowedCommands, validPackageManagers,
                   lastIndex,
                   held, site, completion, ipc, webRequest,
                   utilityComponents>>

\* applyToWindow(window, config): the handler is given to
\* window.webContents.session.webRequest.onHeadersReceived
ApplyToWindow ==
    /\ \E config \in WindowConfigs :
          webRequest' = [NoHandler EXCEPT !.installed = TRUE, !.config = config]
    /\ UNCHANGED <<op, arg, ret, allowedCommands, validPackageManagers,
                   lastIndex,
                   held, site, completion, ipc, cspPolicy, cspCall,
                   utilityComponents>>

\* a response comes in and the handler calls back with its headers
HeadersReceived ==
    /\ webRequest.installed
    /\ \E responseHeaders \in ResponseHeaders :
          LET r == generateCSPHeader(webRequest.config, cspPolicy)
          IN  /\ webRequest' = [webRequest EXCEPT
                                   !.received = TRUE,
                                   !.incoming = responseHeaders,
                                   !.outgoing = onHeadersReceived(responseHeaders,
                                                                  r.header)]
              /\ cspPolicy' = r.policy
    /\ UNCHANGED <<op, arg, ret, allowedCommands, validPackageManagers,
                   lastIndex,
                   held, site, completion, ipc, cspCall,
                   utilityComponents>>

NextCsp ==
    \/ GenerateCSPHeader
    \/ ApplyToWindow
    \/ HeadersReceived

SpecCsp == Init /\ [][NextCsp]_vars

-----------------------------------------------------------------------------
(* The BoundedLRUCache: one object, its methods called one at a time, and  *)
(* the clock Date.now() reads moving on between the calls.  recency keeps, *)
(* for the keys in the cache, the order of their last set or last get that *)
(* found a live entry.                                                     *)

\* key k has just been used: it becomes the most recent one
Touch(r, k) == Append(SelectSeq(r, LAMBDA x : x # k), k)

\* the keys of r that the Map m still holds
Present(r, m) == SelectSeq(r, LAMBDA x : MapHas(m, x))

NewCache ==
    /\ ~cache.constructed
    /\ \E maxSize \in 0..MaxCacheSize, maxAge \in 0..MaxCacheAge :
          LET r == BoundedLRUCache(maxSize, maxAge)
          IN  /\ cache' = r.object
              /\ cacheCall' = [NoCacheCall EXCEPT !.op = "new",
                                                  !.completion = r.completion]
    /\ UNCHANGED <<clock, recency, securityComponents, client, cleanupInterval,
                   ipcResponse>>

CacheSet ==
    /\ cache.constructed
    /\ \E key \in CacheKeys, value \in CacheValues :
          /\ cache' = [cache EXCEPT !.cache = set(cache, key, value, clock)]
          /\ cacheCall' = [NoCacheCall EXCEPT !.op = "set", !.key = key,
                                              !.value = value]
          /\ recency' = Present(Touch(recency, key), cache'.cache)
    /\ UNCHANGED <<clock, securityComponents, client, cleanupInterval,
                   ipcResponse>>

CacheGet ==
    /\ cache.constructed
    /\ \E key \in CacheKeys :
          LET r == get(cache, key, clock)
              live == /\ MapHas(cache.cache, key)
                      /\ clock - MapGet(cache.cache, key).timestamp <= cache.maxAge
          IN  /\ cache' = [cache EXCEPT !.cache = r.cache]
              /\ cacheCall' = [NoCacheCall EXCEPT !.op = "get", !.key = key,
                                                  !.ret = r.ret]
              /\ recency' = Present(IF live THEN Touch(recency, key) ELSE recency,
                                    r.cache)
    /\ UNCHANGED <<clock, securityComponents, client, cleanupInterval,
                   ipcResponse>>

CacheDelete ==
    /\ cache.constructed
    /\ \E key \in CacheKeys :
          LET r == delete(cache, key)
          IN  /\ cache' = [cache EXCEPT !.cache = r.cache]
              /\ cacheCall' = [NoCacheCall EXCEPT !.op = "delete", !.key = key,
                                                  !.ret = r.ret]
              /\ recency' = Present(recency, r.cache)
    /\ UNCHANGED <<clock, securityComponents, client, cleanupInterval,
                   ipcResponse>>

CacheHas ==
    /\ cache.constructed
    /\ \E key \in CacheKeys :
          cacheCall' = [NoCacheCall EXCEPT !.op = "has", !.key = key,
                                           !.ret = JSBoolean(has(cache, key))]
    /\ UNCHANGED <<cache, clock, recency, securityComponents, client, cleanupInterval,
                   ipcResponse>>

CacheCleanup ==
    /\ cache.constructed
    /\ cache' = [cache EXCEPT !.cache = cleanup(cache, clock)]
    /\ cacheCall' = [NoCacheCall EXCEPT !.op = "cleanup"]
    /\ recency' = Present(recency, cache'.cache)
    /\ UNCHANGED <<clock, securityComponents, client, cleanupInterval,
                   ipcResponse>>

CacheClear ==
    /\ cache.constructed
    /\ cache' = [cache EXCEPT !.cache = clear(cache)]
    /\ cacheCall' = [NoCacheCall EXCEPT !.op = "clear"]
    /\ recency' = <<>>
    /\ UNCHANGED <<clock, securityComponents, client, cleanupInterval,
                   ipcResponse>>

\* time passes between two calls
Tick ==
    /\ cache.constructed
    /\ clock < MaxNow
    /\ clock' = clock + 1
    /\ UNCHANGED <<cache, cacheCall, recency, securityComponents, client,
                   cleanupInterval, ipcResponse>>

NextCache ==
    \/ NewCache
    \/ CacheSet
    \/ CacheGet
    \/ CacheDelete
    \/ CacheHas
    \/ CacheCleanup
    \/ CacheClear
    \/ Tick

SpecCache == Init /\ [][NextCache]_vars

-----------------------------------------------------------------------------
(* The IPC client: one call of invokeWithTimeout.  Its steps are the tasks *)
(* of the event loop: the promise of an attempt settles, a timer fires,    *)
(* the retry delay ends.  The callbacks a settling promise schedules run   *)
(* as microtasks before the next timer task, so they belong to the step.   *)

Invoke ==
    /\ client.pc = "idle"
    /\ \E invoked \in Invocations, options \in IpcCallOptions :
          client' = invokeWithTimeout(invoked, "test:channel", options)
    /\ UNCHANGED <<securityComponents, cacheComponents,
                   cleanupInterval, ipcResponse>>

\* the promise an attempt was given resolves
PromiseResolves ==
    /\ \E i \in 1..Len(client.calls), result \in IpcResults :
          /\ client.calls[i].promise.state = "pending"
          /\ client' = await([client EXCEPT !.calls[i] = onFulfilled(@, result)])
    /\ UNCHANGED <<securityComponents, cacheComponents,
                   cleanupInterval, ipcResponse>>

\* the promise an attempt was given rejects
PromiseRejects ==
    /\ \E i \in 1..Len(client.calls), error \in ThrownValues :
          /\ client.calls[i].promise.state = "pending"
          /\ client' = await([client EXCEPT !.calls[i] = onRejected(@, error)])
    /\ UNCHANGED <<securityComponents, cacheComponents,
                   cleanupInterval, ipcResponse>>

\* the timer of an attempt fires
TimerFires ==
    /\ \E i \in 1..Len(client.calls) :
          /\ client.calls[i].timer = "armed"
          /\ client' = await([client EXCEPT !.calls[i] = onTimeout(@)])
    /\ UNCHANGED <<securityComponents, cacheComponents,
                   cleanupInterval, ipcResponse>>

\* the timer of delay(retryDelay) fires and the loop goes round
DelayElapses ==
    /\ client.pc = "delaying"
    /\ client.delay = "armed"
    /\ \E invoked \in Invocations : client' = while(client, invoked)
    /\ UNCHANGED <<securityComponents, cacheComponents,
                   cleanupInterval, ipcResponse>>

NextClient ==
    \/ Invoke
    \/ PromiseResolves
    \/ PromiseRejects
    \/ TimerFires
    \/ DelayElapses

SpecClient == Init /\ [][NextClient]_vars

\* the event loop runs a timer that is due
SpecClientFair ==
    /\ Init
    /\ [][NextClient]_vars
    /\ WF_vars(TimerFires)
    /\ WF_vars(DelayElapses)

-----------------------------------------------------------------------------
(* The CacheManager: one object, its methods, which pass the call on to    *)
(* the cache, the callback of its interval timer, and the clock.  An entry *)
(* is set only while the clock leaves it the time to expire before MaxNow, *)
(* where the model's clock stops.                                          *)

NewManager ==
    /\ ~cache.constructed
    /\ \E maxSize \in 0..MaxCacheSize, maxAge \in 0..MaxCacheAge :
          LET r == CacheManager(maxSize, maxAge, 1)
          IN  /\ cache' = r.object
              /\ cleanupInterval' = r.cleanupInterval
              /\ cacheCall' = [NoCacheCall EXCEPT !.op = "new",
                                                  !.completion = r.completion]
    /\ UNCHANGED <<clock, recency, securityComponents, client, ipcResponse>>

ManagerSet ==
    /\ cache.constructed
    /\ clock + cache.maxAge < MaxNow
    /\ \E key \in ManagerKeys, value \in ManagerValues :
          /\ cache' = [cache EXCEPT !.cache = set(cache, key, value, clock)]
          /\ cacheCall' = [NoCacheCall EXCEPT !.op = "set", !.key = key,
                                              !.value = value]
          /\ recency' = Present(Touch(recency, key), cache'.cache)
    /\ UNCHANGED <<clock, securityComponents, client, cleanupInterval,
                   ipcResponse>>

ManagerGet ==
    /\ cache.constructed
    /\ \E key \in ManagerKeys :
          LET r == get(cache, key, clock)
              live == /\ MapHas(cache.cache, key)
                      /\ clock - MapGet(cache.cache, key).timestamp <= cache.maxAge
          IN  /\ cache' = [cache EXCEPT !.cache = r.cache]
              /\ cacheCall' = [NoCacheCall EXCEPT !.op = "get", !.key = key,
                                                  !.ret = r.ret]
              /\ recency' = Present(IF live THEN Touch(recency, key) ELSE recency,
                                    r.cache)
    /\ UNCHANGED <<clock, securityComponents, client, cleanupInterval,
                   ipcResponse>>

ManagerDelete ==
    /\ cache.constructed
    /\ \E key \in ManagerKeys :
          LET r == delete(cache, key)
          IN  /\ cache' = [cache EXCEPT !.cache = r.cache]
              /\ cacheCall' = [NoCacheCall EXCEPT !.op = "delete", !.key = key,
                                                  !.ret = r.ret]
              /\ recency' = Present(recency, r.cache)
    /\ UNCHANGED <<clock, securityComponents, client, cleanupInterval,
                   ipcResponse>>

ManagerHas ==
    /\ cache.constructed
    /\ \E key \in ManagerKeys :
          cacheCall' = [NoCacheCall EXCEPT !.op = "has", !.key = key,
                                           !.ret = JSBoolean(has(cache, key))]
    /\ UNCHANGED <<cache, clock, recency, securityComponents, client,
                   cleanupInterval, ipcResponse>>

ManagerClear ==
    /\ cache.constructed
    /\ cache' = [cache EXCEPT !.cache = clear(cache)]
    /\ cacheCall' = [NoCacheCall EXCEPT !.op = "clear"]
    /\ recency' = Present(recency, cache'.cache)
    /\ UNCHANGED <<clock, securityComponents, client, cleanupInterval,
                   ipcResponse>>

\* cleanup() called by the owner of the manager
ManagerCleanup ==
    /\ cache.constructed
    /\ cache' = [cache EXCEPT !.cache = cleanup(cache, clock)]
    /\ cacheCall' = [NoCacheCall EXCEPT !.op = "cleanup"]
    /\ recency' = Present(recency, cache'.cache)
    /\ UNCHANGED <<clock, securityComponents, client, cleanupInterval,
                   ipcResponse>>

\* the callback of setInterval runs
TimerCleanup ==
    /\ cleanupInterval.timer = "running"
    /\ cache' = [cache EXCEPT !.cache = cleanup(cache, clock)]
    /\ cacheCall' = [NoCacheCall EXCEPT !.op = "timer"]
    /\ recency' = Present(recency, cache'.cache)
    /\ UNCHANGED <<clock, securityComponents, client, cleanupInterval,
                   ipcResponse>>

StopCleanup ==
    /\ cache.constructed
    /\ cleanupInterval' = [stopCleanup(cleanupInterval) EXCEPT !.stopCalled = TRUE]
    /\ cacheCall' = [NoCacheCall EXCEPT !.op = "stopCleanup"]
    /\ UNCHANGED <<cache, clock, recency, securityComponents, client,
                   ipcResponse>>

NextManager ==
    \/ NewManager
    \/ ManagerSet
    \/ ManagerGet
    \/ ManagerDelete
    \/ ManagerHas
    \/ ManagerClear
    \/ ManagerCleanup
    \/ TimerCleanup
    \/ StopCleanup
    \/ Tick

\* the event loop runs the callback of an interval timer that is due, and
\* time passes
SpecManager ==
    /\ Init
    /\ [][NextManager]_vars
    /\ WF_vars(TimerCleanup)
    /\ WF_vars(Tick)

-----------------------------------------------------------------------------
(* The IPC responses: a response is built, and its receiver asks the two   *)
(* type guards about it and unwraps it.                                    *)

CreateSuccessResponse ==
    /\ \E data \in ResponseData, now \in Clock :
          ipcResponse' =
              [NoResponse EXCEPT !.call = "createSuccessResponse",
                                 !.data = data,
                                 !.value = createSuccessResponse(data, now)]
    /\ UNCHANGED <<securityComponents, cacheComponents, client, cleanupInterval>>

CreateErrorResponse ==
    /\ \E code \in IPCErrorCode, message \in ResponseMessages,
          details \in ResponseDetails, now \in Clock :
          ipcResponse' =
              [NoResponse EXCEPT !.call = "createErrorResponse",
                                 !.code = code, !.message = message,
                                 !.value = createErrorResponse(code, message,
                                                               details, now)]
    /\ UNCHANGED <<securityComponents, cacheComponents, client, cleanupInterval>>

UnwrapResponse ==
    /\ ipcResponse.call # "none"
    /\ ~ipcResponse.guarded
    /\ ipcResponse' =
          [ipcResponse EXCEPT !.guarded = TRUE,
                              !.isSuccess = isSuccessResponse(ipcResponse.value),
                              !.isError = isErrorResponse(ipcResponse.value),
                              !.unwrapped = unwrapResponse(ipcResponse.value)]
    /\ UNCHANGED <<securityComponents, cacheComponents, client, cleanupInterval>>

NextResponse ==
    \/ CreateSuccessResponse
    \/ CreateErrorResponse
    \/ UnwrapResponse

SpecResponse == Init /\ [][NextResponse]_vars

-----------------------------------------------------------------------------
(* The vocabulary of the properties, written from the specification's      *)
(* words and independent of the definitions above.                         *)

\* the ten allow-listed names
TenNames ==
    { <<"n", "p", "m">>, <<"n", "p", "x">>, <<"p", "i", "p">>,
      <<"p", "i", "p", "3">>, <<"c", "o", "m", "p", "o", "s", "e", "r">>,
      <<"c", "a", "r", "g", "o">>, <<"g", "e", "m">>, <<"n", "o", "d", "e">>,
      <<"p", "y", "t", "h", "o", "n">>, <<"p", "y", "t", "h", "o", "n", "3">> }

\* s contains one of the sixteen dangerous characters
HasDangerous(s) == \E i \in 1..Len(s) : s[i] \in Dangerous16

\* s is a string without white space at either end
NoOuterWhiteSpace(s) ==
    s = <<>> \/ (s[1] \notin WhiteSpace /\ s[Len(s)] \notin WhiteSpace)

\* the white-space-delimited tokens of s, left to right
RECURSIVE TokensFrom(_, _, _)
TokensFrom(s, i, cur) ==
    IF i > Len(s) THEN (IF cur = <<>> THEN <<>> ELSE <<cur>>)
    ELSE IF s[i] \in WhiteSpace
    THEN (IF cur = <<>> THEN <<>> ELSE <<cur>>) \o TokensFrom(s, i + 1, <<>>)
    ELSE TokensFrom(s, i + 1, Append(cur, s[i]))

Tokens(s) == TokensFrom(s, 1, <<>>)

\* the first token of s, the empty string when s has none
FirstToken(s) == IF Tokens(s) = <<>> THEN <<>> ELSE Tokens(s)[1]

\* the tokens with exactly one space between neighbours
RECURSIVE SpaceJoined(_)
SpaceJoined(tokens) ==
    IF tokens = <<>> THEN <<>>
    ELSE IF Len(tokens) = 1 THEN tokens[1]
    ELSE tokens[1] \o <<" ">> \o SpaceJoined(Tail(tokens))

\* a command string was given to validateCommand and the call has returned
CommandValidated == op = "validateCommand" /\ arg.k = "string"

-----------------------------------------------------------------------------
(* C1: a command whose first token is not one of the ten allow-listed      *)
(* names, or that contains one of the sixteen dangerous characters         *)
(* anywhere, gets an invalid result that carries no sanitizedCommand.      *)
C1_InjectionSafety ==
    (CommandValidated
        /\ (FirstToken(arg.s) \notin TenNames \/ HasDangerous(arg.s)))
    => (ret.valid = FALSE /\ "sanitizedCommand" \notin DOMAIN ret)

\* an allow-listed command with a dangerous character in an argument was rejected
C1_Witness ==
    /\ CommandValidated
    /\ FirstToken(arg.s) \in TenNames
    /\ HasDangerous(arg.s)
    /\ ret.valid = FALSE

(* C2: escaping the output of escapeArgument again changes nothing.        *)
C2_EscapeIdempotent ==
    op = "escapeArgument" => escapeArgument(JSString(ret)) = ret

\* a string with an escaped pair behind a backslash was escaped and grew
C2_Witness ==
    /\ op = "escapeArgument"
    /\ arg.k = "string"
    /\ \E i \in 1..(Len(arg.s) - 2) :
          arg.s[i] = "\\" /\ arg.s[i + 1] = "\\" /\ arg.s[i + 2] = ";"
    /\ Len(ret) > Len(arg.s)

\* s without its two-character sequences that begin with a backslash,
\* deleted in one scan from the left
RECURSIVE StripEscapes(_, _)
StripEscapes(s, i) ==
    IF i > Len(s) THEN <<>>
    ELSE IF s[i] = "\\" /\ i < Len(s) THEN StripEscapes(s, i + 2)
    ELSE <<s[i]>> \o StripEscapes(s, i + 1)

(* C3: once the backslash pairs are deleted from the output of             *)
(* escapeArgument, containsDangerousChars finds nothing in what is left.   *)
C3_EscapeComplete ==
    op = "escapeArgument"
    => containsDangerousChars(JSString(StripEscapes(ret, 1)), lastIndex).ret = FALSE

\* a string with a bare dangerous character and a lone backslash was escaped
C3_Witness ==
    /\ op = "escapeArgument"
    /\ arg.k = "string"
    /\ Len(arg.s) >= 2
    /\ arg.s[1] \in Dangerous16 \ {"\\"}
    /\ arg.s[Len(arg.s)] = "\\"
    /\ StripEscapes(ret, 1) # ret

(* C4: a non-empty command with an allow-listed first token and no         *)
(* dangerous character is valid, and its sanitizedCommand is its tokens    *)
(* joined by one space each: no outer white space, no dangerous character. *)
C4_SanitizedCommand ==
    (CommandValidated
        /\ Tokens(arg.s) # <<>>
        /\ FirstToken(arg.s) \in TenNames
        /\ ~HasDangerous(arg.s))
    => /\ ret.valid = TRUE
       /\ ret.sanitizedCommand = SpaceJoined(Tokens(arg.s))
       /\ NoOuterWhiteSpace(ret.sanitizedCommand)
       /\ ~HasDangerous(ret.sanitizedCommand)

\* a padded command of three tokens was accepted and normalised
C4_Witness ==
    /\ CommandValidated
    /\ ret.valid = TRUE
    /\ Len(Tokens(arg.s)) = 3
    /\ ret.sanitizedCommand # arg.s

(* C5: validateCommand reports the first failing gate of emptiness,        *)
(* allow-list, dangerous characters: a base token off the allow-list is    *)
(* named in the reason even when the command holds a dangerous character.  *)
C5_FirstGateWins ==
    CommandValidated
    => /\ Tokens(arg.s) = <<>> => ret.error = ErrCommandEmpty
       /\ (Tokens(arg.s) # <<>> /\ FirstToken(arg.s) \notin TenNames)
            => ret.error = ErrNotAllowed(FirstToken(arg.s))
       /\ (FirstToken(arg.s) \in TenNames /\ HasDangerous(arg.s))
            => ret.error = ErrUnsafeChars

\* a command off the allow-list that holds a dangerous character was rejected
C5_Witness ==
    /\ CommandValidated
    /\ Tokens(arg.s) # <<>>
    /\ FirstToken(arg.s) \notin TenNames
    /\ HasDangerous(arg.s)
    /\ ret.valid = FALSE

\* the calls that return a ValidationResult
InputValidatorOps ==
    {"validatePackageName", "validatePID", "validatePath", "validatePackageManager"}

(* C6: every result of validateCommand and of the four InputValidator      *)
(* methods is one variant in full: valid with its value and no error, or   *)
(* invalid with its error and no value.                                    *)
C6_OneVariant ==
    /\ op = "validateCommand"
         => IF ret.valid THEN DOMAIN ret = {"valid", "sanitizedCommand"}
                         ELSE DOMAIN ret = {"valid", "error"}
    /\ op \in InputValidatorOps
         => IF ret.valid THEN DOMAIN ret = {"valid", "value"}
                         ELSE DOMAIN ret = {"valid", "error"}

\* an unknown package manager was rejected
C6_Witness ==
    /\ op = "validatePackageManager"
    /\ arg.k = "string"
    /\ Tokens(arg.s) # <<>>
    /\ ret.valid = FALSE

(* C7: whatever a caller does with the sequence getAllowedCommands         *)
(* returned, validateCommand still accepts exactly the ten original names  *)
(* as base commands.                                                       *)
C7_AllowListUntouched ==
    \A b \in BaseTokens \cup PushedCommands :
        validateCommand(JSString(b), allowedCommands, lastIndex).ret.valid
            <=> b \in TenNames

\* each method run alone: on a freshly loaded module, with no other call
RunAlone(o, a) ==
    RunCall(o, a, ALLOWED_COMMANDS, VALID_PACKAGE_MANAGERS,
            [r \in RegExpNames |-> 0]).ret

(* C8: in every interleaving of the calls of several call sites, each call *)
(* returns what it returns when run alone on its input, and the allow-list,*)
(* the patterns and the package-manager list stay as they were loaded.     *)
C8_NoSharedMutableState ==
    /\ allowedCommands = ALLOWED_COMMANDS
    /\ validPackageManagers = VALID_PACKAGE_MANAGERS
    /\ lastIndex = [r \in RegExpNames |-> 0]
    /\ \A s \in Sites :
          site[s].status = "returned"
              => site[s].ret = RunAlone(site[s].op, site[s].arg)

\* two call sites had a test of the same pattern in flight, and both returned
C8_Witness ==
    \E s1, s2 \in Sites :
        /\ s1 # s2
        /\ site[s1].status = "returned" /\ site[s2].status = "returned"
        /\ site[s1].op = "containsDangerousChars"
        /\ site[s2].op = "containsDangerousChars"
        /\ site[s1].arg # site[s2].arg
        /\ site[s1].ret = TRUE /\ site[s2].ret = TRUE

(* C9: containsDangerousChars is true exactly for a string that holds one  *)
(* of the sixteen dangerous characters; it is false for the empty string   *)
(* and for null, undefined and every other value that is not a string.     *)
C9_ContainsDangerousChars ==
    op = "containsDangerousChars"
    => ret = (arg.k = "string" /\ HasDangerous(arg.s))

\* a string whose only dangerous character is its last one was found dangerous
C9_Witness ==
    /\ op = "containsDangerousChars"
    /\ arg.k = "string"
    /\ Len(arg.s) >= 2
    /\ arg.s[Len(arg.s)] \in Dangerous16
    /\ \A i \in 1..(Len(arg.s) - 1) : arg.s[i] \notin Dangerous16
    /\ ret = TRUE

\* the npm grammar: lowercase letters, digits, "-" and "~" first, then also
\* "." and "_"
NpmPart(s) ==
    /\ s # <<>>
    /\ s[1] \in Lower \cup Digit \cup {"-", "~"}
    /\ \A i \in 2..Len(s) : s[i] \in Lower \cup Digit \cup {"-", "~", ".", "_"}

IsNpmName(s) ==
    \/ NpmPart(s)
    \/ /\ Len(s) >= 4
       /\ s[1] = "@"
       /\ \E k \in 3..(Len(s) - 1) :
             /\ s[k] = "/"
             /\ NpmPart(SubSeq(s, 2, k - 1))
             /\ NpmPart(SubSeq(s, k + 1, Len(s)))

\* the pip grammar: a letter of either case or a digit first and last,
\* between them also ".", "_" and "-"
IsPipName(s) ==
    /\ s # <<>>
    /\ s[1] \in Lower \cup Upper \cup Digit
    /\ s[Len(s)] \in Lower \cup Upper \cup Digit
    /\ \A i \in 1..Len(s) : s[i] \in Lower \cup Upper \cup Digit \cup {".", "_", "-"}

\* s without the white space at its ends
RECURSIVE Trimmed(_)
Trimmed(s) ==
    IF s = <<>> THEN s
    ELSE IF s[1] \in WhiteSpace THEN Trimmed(SubSeq(s, 2, Len(s)))
    ELSE IF s[Len(s)] \in WhiteSpace THEN Trimmed(SubSeq(s, 1, Len(s) - 1))
    ELSE s

(* C10: validatePackageName accepts exactly the inputs whose trimmed form  *)
(* is non-empty and follows the npm or the pip grammar, and the accepted   *)
(* value is the trimmed input, its case unchanged.                         *)
C10_PackageNameGrammar ==
    op = "validatePackageName"
    => /\ ret.valid = /\ arg.k = "string"
                      /\ Trimmed(arg.s) # <<>>
                      /\ (IsNpmName(Trimmed(arg.s)) \/ IsPipName(Trimmed(arg.s)))
       /\ ret.valid => ret.value = Trimmed(arg.s)

\* a padded name with a capital letter, a pip name only, was accepted
C10_Witness ==
    /\ op = "validatePackageName"
    /\ ret.valid = TRUE
    /\ ret.value # arg.s
    /\ \E i \in 1..Len(ret.value) : ret.value[i] = "A"
    /\ ~IsNpmName(ret.value)

-----------------------------------------------------------------------------
\* the pieces of s between its separators "/" and "\"
RECURSIVE SegmentsFrom(_, _, _)
SegmentsFrom(s, i, cur) ==
    IF i > Len(s) THEN <<cur>>
    ELSE IF s[i] \in {"/", "\\"} THEN <<cur>> \o SegmentsFrom(s, i + 1, <<>>)
    ELSE SegmentsFrom(s, i + 1, Append(cur, s[i]))

Segments(s) == SegmentsFrom(s, 1, <<>>)

\* s contains two dots in a row
HasDotDot(s) == \E i \in 1..(Len(s) - 1) : s[i] = "." /\ s[i + 1] = "."

\* s has the parent-directory segment: ".." between separators or ends
HasDotDotSegment(s) ==
    \E i \in 1..Len(Segments(s)) : Segments(s)[i] = <<".", ".">>

(* C11 as stated: no value validatePackageName accepts contains the        *)
(* substring "..".                                                         *)
C11_NoDotDotAccepted ==
    (op = "validatePackageName" /\ ret.valid) => ~HasDotDot(ret.value)

(* C11: validatePackageName rejects every name that has ".." as a whole    *)
(* path segment, as "../etc/passwd" has; two dots inside a segment, as in  *)
(* "a..a", do not make it reject.                                          *)
C11_NoDotDotSegment ==
    (op = "validatePackageName" /\ arg.k = "string"
        /\ HasDotDotSegment(Trimmed(arg.s)))
    => ret.valid = FALSE

\* a name that begins with the segment ".." and goes on was rejected
C11_Witness ==
    /\ op = "validatePackageName"
    /\ arg.k = "string"
    /\ Len(arg.s) >= 4
    /\ SubSeq(arg.s, 1, 3) = <<".", ".", "/">>
    /\ ret.valid = FALSE

-----------------------------------------------------------------------------
\* the call of validatePID has returned
PidValidated == op = "validatePID"

\* v is a number in the narrow sense: neither NaN nor an infinity
IsFiniteNumber(v) == v.k = "number"

\* v is a whole number (a number v.n / v.d with nothing left over)
IsWholeNumber(v) == IsFiniteNumber(v) /\ \E q \in (0 - v.n)..v.n \cup v.n..(0 - v.n) : q * v.d = v.n

(* C12: validatePID accepts a value exactly when it is a number, finite,   *)
(* whole and greater than zero, and hands back that same number; 0,        *)
(* negatives, fractions, NaN, both infinities and every value that is not  *)
(* a number (numeric strings, null, undefined, objects, arrays) are        *)
(* rejected.                                                               *)
C12_PidAcceptance ==
    PidValidated
    => /\ ret.valid = (IsWholeNumber(arg) /\ arg.n > 0)
       /\ ret.valid => ret.value = arg

\* a whole number above one was accepted
C12_Witness ==
    /\ PidValidated
    /\ arg.k = "number"
    /\ arg.d = 1
    /\ arg.n > 1
    /\ ret.valid = TRUE
    /\ ret.value = arg

\* the class of a rejected PID, by the first of the five checks it fails
PidClass(v) ==
    IF v.k \notin {"number", "NaN", "Infinity", "-Infinity"} THEN "non-number"
    ELSE IF v.k = "NaN" THEN "NaN"
    ELSE IF v.k \in {"Infinity", "-Infinity"} THEN "infinite"
    ELSE IF ~IsWholeNumber(v) THEN "fractional"
    ELSE IF v.n <= 0 THEN "non-positive"
    ELSE "positive integer"

\* the reason each class is given
PidReason(class) ==
    CASE class = "non-number" -> ErrPidType
      [] class = "NaN" -> ErrPidNaN
      [] class = "infinite" -> ErrPidFinite
      [] class = "fractional" -> ErrPidInteger
      [] class = "non-positive" -> ErrPidPositive

PidRejectedClasses == {"non-number", "NaN", "infinite", "fractional", "non-positive"}

(* C13: validatePID reports the reason of the first failing check in the   *)
(* order number type, NaN, finite, integer, positive, and the five         *)
(* reasons differ from each other: NaN gets the NaN reason, an infinity    *)
(* the finite reason, a negative fraction the integer reason.              *)
C13_PidFirstReason ==
    /\ \A c1, c2 \in PidRejectedClasses : c1 # c2 => PidReason(c1) # PidReason(c2)
    /\ (PidValidated /\ PidClass(arg) \in PidRejectedClasses)
         => (ret.valid = FALSE /\ ret.error = PidReason(PidClass(arg)))

\* a negative fraction was rejected
C13_Witness ==
    /\ PidValidated
    /\ arg.k = "number"
    /\ arg.n < 0
    /\ PidClass(arg) = "fractional"
    /\ ret.valid = FALSE

(* C14: validatePath rejects every input whose trimmed form contains ".."  *)
(* anywhere, rejects the empty and the white-space-only input, and accepts *)
(* every other string, returning the trimmed input as it is.               *)
C14_PathTraversal ==
    (op = "validatePath" /\ arg.k = "string")
    => /\ ret.valid = (Trimmed(arg.s) # <<>> /\ ~HasDotDot(Trimmed(arg.s)))
       /\ ret.valid => ret.value = Trimmed(arg.s)

\* a path with ".." behind a directory name was rejected for the traversal
C14_Witness ==
    /\ op = "validatePath"
    /\ arg.k = "string"
    /\ Len(arg.s) >= 3
    /\ arg.s[1] \notin {".", " "}
    /\ HasDotDot(arg.s)
    /\ ret.valid = FALSE
    /\ ret.error = ErrPathTraversal

\* the capital letters and the small letters, in the order of the alphabet
CapitalLetters ==
    <<"A", "B", "C", "D", "E", "F", "G", "H", "I", "J", "K", "L", "M",
      "N", "O", "P", "Q", "R", "S", "T", "U", "V", "W", "X", "Y", "Z">>
SmallLetters ==
    <<"a", "b", "c", "d", "e", "f", "g", "h", "i", "j", "k", "l", "m",
      "n", "o", "p", "q", "r", "s", "t", "u", "v", "w", "x", "y", "z">>

\* s with each capital letter replaced by its small letter
LowerCased(s) ==
    [i \in 1..Len(s) |->
        IF \E k \in 1..26 : CapitalLetters[k] = s[i]
        THEN SmallLetters[CHOOSE k \in 1..26 : CapitalLetters[k] = s[i]]
        ELSE s[i]]

\* the three package managers
ThreeManagers ==
    { <<"n", "p", "m">>, <<"p", "i", "p">>,
      <<"c", "o", "m", "p", "o", "s", "e", "r">> }

\* the text "npm, pip, composer"
ThreeManagersListed ==
    <<"n", "p", "m", ",", " ", "p", "i", "p", ",", " ",
      "c", "o", "m", "p", "o", "s", "e", "r">>

(* C15: validatePackageManager accepts an input exactly when its trimmed,  *)
(* lower-cased form is npm, pip or composer, and returns that lower-cased  *)
(* name; an empty or white-space-only input gets the empty reason, every   *)
(* other input a reason that lists the three valid names.                  *)
C15_PackageManager ==
    (op = "validatePackageManager" /\ arg.k = "string")
    => LET name == LowerCased(Trimmed(arg.s))
       IN  /\ ret.valid = (name \in ThreeManagers)
           /\ ret.valid => ret.value = name
           /\ name = <<>> => ret.error = ErrManagerEmpty
           /\ (name # <<>> /\ name \notin ThreeManagers)
                => /\ ret.error # ErrManagerEmpty
                   /\ ret.error[2] = ThreeManagersListed

\* a padded name in capital letters was accepted in small letters
C15_Witness ==
    /\ op = "validatePackageManager"
    /\ arg.k = "string"
    /\ ret.valid = TRUE
    /\ ret.value # Trimmed(arg.s)
    /\ Trimmed(arg.s) # arg.s

-----------------------------------------------------------------------------
\* the seven validation methods
SevenMethods ==
    {"validatePackageName", "validatePID", "validatePath", "validatePackageManager",
     "validateCommand", "containsDangerousChars", "escapeArgument"}

\* v is not of the type its method expects: no string, or for validatePID,
\* nothing of number type
Mistyped(o, v) ==
    IF o = "validatePID" THEN v.k \notin {"number", "NaN", "Infinity", "-Infinity"}
    ELSE v.k # "string"

(* C16: none of the seven validation methods throws, whatever value it is  *)
(* given; for null, undefined, a number, an object or an array in place of *)
(* a string (or a value that is no number in place of a PID) the call      *)
(* returns an invalid outcome, false, or the empty string.                 *)
C16_NeverThrows ==
    op \in SevenMethods
    => /\ completion = "normal"
       /\ Mistyped(op, arg)
            => CASE op = "containsDangerousChars" -> ret = FALSE
                 [] op = "escapeArgument" -> ret = <<>>
                 [] OTHER -> ret.valid = FALSE /\ "error" \in DOMAIN ret

\* validatePackageName was given null and returned an invalid outcome
C16_Witness ==
    /\ op = "validatePackageName"
    /\ arg.k = "null"
    /\ completion = "normal"
    /\ ret.valid = FALSE

-----------------------------------------------------------------------------
\* the InputValidator outcome of each parameter of a request, each run alone
ParameterOutcomes(request) ==
    IF request.channel = "install"
    THEN <<RunAlone("validatePackageManager", request.params[1]),
           RunAlone("validatePackageName", request.params[2])>>
    ELSE <<RunAlone("validatePath", request.params[1])>>

\* every parameter of the request is accepted by InputValidator
ParametersAccepted(request) ==
    \A i \in 1..Len(ParameterOutcomes(request)) : ParameterOutcomes(request)[i].valid

\* the validateCommand outcome of the command line assembled from the
\* accepted values of the request
CommandOutcome(request) ==
    RunAlone("validateCommand",
             JSString(Assemble(request.channel,
                               [i \in 1..Len(ParameterOutcomes(request)) |->
                                   ParameterOutcomes(request)[i].value])))

\* the reason of the first invalid outcome on the way of the request
FirstReason(request) ==
    IF ParametersAccepted(request) THEN CommandOutcome(request).error
    ELSE LET i == CHOOSE i \in 1..Len(ParameterOutcomes(request)) :
                     /\ ~ParameterOutcomes(request)[i].valid
                     /\ \A j \in 1..(i - 1) : ParameterOutcomes(request)[j].valid
         IN  ParameterOutcomes(request)[i].error

\* the request is rejected by InputValidator or by validateCommand
RequestRejected(request) ==
    ~ParametersAccepted(request) \/ ~CommandOutcome(request).valid

(* C17: the handler executes a command only once InputValidator has        *)
(* accepted every parameter and validateCommand has then accepted the      *)
(* assembled command line, and what it executes is the sanitized command;  *)
(* on an invalid outcome it executes nothing and answers with an error     *)
(* response of the code VALIDATION_ERROR that carries the reason string.   *)
C17_ExecuteOnlyValidated ==
    /\ ipc.executed # <<>>
         => /\ ParametersAccepted(ipc.request)
            /\ CommandOutcome(ipc.request).valid
            /\ ipc.executed = <<CommandOutcome(ipc.request).sanitizedCommand>>
    /\ (ipc.pc = "responded" /\ RequestRejected(ipc.request))
         => /\ ipc.executed = <<>>
            /\ ipc.response.success = FALSE
            /\ ipc.response.error.code = "VALIDATION_ERROR"
            /\ ipc.response.error.message = FirstReason(ipc.request)

\* a request whose parameter InputValidator accepted was rejected by
\* validateCommand and answered with the reason
C17_Witness ==
    /\ ipc.pc = "responded"
    /\ ParametersAccepted(ipc.request)
    /\ ~CommandOutcome(ipc.request).valid
    /\ ipc.executed = <<>>
    /\ ipc.response.success = FALSE
    /\ ipc.response.error.message = ErrUnsafeChars

-----------------------------------------------------------------------------
\* the maximal runs of characters of s that are not in Sep, left to right
Runs(s, Sep) ==
    LET starts == {i \in 1..Len(s) :
                      s[i] \notin Sep /\ (i = 1 \/ s[i - 1] \in Sep)}
        endOf(i) == CHOOSE j \in i..Len(s) :
                       /\ \A m \in i..j : s[m] \notin Sep
                       /\ (j = Len(s) \/ s[j + 1] \in Sep)
        nth(k) == CHOOSE i \in starts : Cardinality({j \in starts : j < i}) = k - 1
    IN  [k \in 1..Cardinality(starts) |-> SubSeq(s, nth(k), endOf(nth(k)))]

\* the tokens of the first directive of the header that is named name,
\* without the name; none when the header has no such directive
DirectiveValues(header, name) ==
    LET directives == Runs(header, {";"})
        named == {i \in 1..Len(directives) :
                     /\ Runs(directives[i], WhiteSpace) # <<>>
                     /\ Runs(directives[i], WhiteSpace)[1] = name}
    IN  IF named = {} THEN <<>>
        ELSE Tail(Runs(directives[CHOOSE i \in named : \A j \in named : i <= j],
                       WhiteSpace))

ScriptSrcName == <<"s", "c", "r", "i", "p", "t", "-", "s", "r", "c">>
ConnectSrcName == <<"c", "o", "n", "n", "e", "c", "t", "-", "s", "r", "c">>
NoncePrefix == <<"'", "n", "o", "n", "c", "e", "-">>
UnsafeInlineToken ==
    <<"'", "u", "n", "s", "a", "f", "e", "-", "i", "n", "l", "i", "n", "e",
      "'">>
SelfToken == <<"'", "s", "e", "l", "f", "'">>

(* C18: whatever the config, the script-src directive of the header that   *)
(* generateCSPHeader produced does not hold the token 'unsafe-inline'.     *)
C18_NoUnsafeInlineScript ==
    cspCall.made
    => \A i \in 1..Len(DirectiveValues(cspCall.header, ScriptSrcName)) :
          DirectiveValues(cspCall.header, ScriptSrcName)[i] # UnsafeInlineToken

(* C19: after any calls of generateCSPHeader the base policy table is as   *)
(* it was loaded, and the header of a call is the header of its config on  *)
(* the loaded table: without a nonce in the config script-src holds no     *)
(* nonce source, outside development mode connect-src holds only 'self'.   *)
C19_PolicyTableUnchanged ==
    /\ cspPolicy = CSP_POLICY
    /\ cspCall.made
         => /\ cspCall.header = generateCSPHeader(cspCall.config, CSP_POLICY).header
            /\ "nonce" \notin Supplied(cspCall.config)
                 => DirectiveValues(cspCall.header, ScriptSrcName) = <<SelfToken>>
            /\ "dev" \notin Supplied(cspCall.config)
                 => DirectiveValues(cspCall.header, ConnectSrcName) = <<SelfToken>>

\* a call with neither nonce nor development mode came right after a call
\* with both
C19_Witness ==
    /\ cspCall.made
    /\ cspCall.earlier = {"nonce", "dev"}
    /\ Supplied(cspCall.config) = {}
    /\ DirectiveValues(cspCall.header, ScriptSrcName) = <<SelfToken>>

(* C20: the handler that applyToWindow installed calls back with a header  *)
(* map in which every header but Content-Security-Policy has the value it  *)
(* came with and Content-Security-Policy has one value, the generated      *)
(* header, also when the response came with a Content-Security-Policy.     *)
C20_ResponseHeaders ==
    webRequest.received
    => /\ DOMAIN webRequest.outgoing
            = DOMAIN webRequest.incoming \cup {"Content-Security-Policy"}
       /\ \A k \in DOMAIN webRequest.incoming \ {"Content-Security-Policy"} :
             webRequest.outgoing[k] = webRequest.incoming[k]
       /\ Len(webRequest.outgoing["Content-Security-Policy"]) = 1
       /\ webRequest.outgoing["Content-Security-Policy"][1]
            = generateCSPHeader(webRequest.config, CSP_POLICY).header

\* a response that came with two Content-Security-Policy values went out
\* with one
C20_Witness ==
    /\ webRequest.received
    /\ "Content-Security-Policy" \in DOMAIN webRequest.incoming
    /\ Len(webRequest.incoming["Content-Security-Policy"]) = 2
    /\ Len(webRequest.outgoing["Content-Security-Policy"]) = 1

-----------------------------------------------------------------------------
(* BoundedLRUCache.                                                        *)

\* C21: a BoundedLRUCache constructed with a positive integer maxSize never
\* holds more than maxSize entries, whatever calls of set, get, delete,
\* has, cleanup and clear were made on it.
C21_SizeBounded ==
    cache.constructed => Len(cache.cache) <= cache.maxSize

\* the entries a Map holds, and their keys
Entries(m) == {m[i] : i \in 1..Len(m)}
HeldKeys(m) == {m[i].key : i \in 1..Len(m)}

\* the step is a call of the method named o on the cache
CacheStep(o) == cacheCall'.op = o /\ clock' = clock

\* C22: a set of a key the cache does not hold, made while the cache holds
\* maxSize entries, removes exactly one entry, the least recently used one
\* (the one whose last set or last get that found it is the oldest), and
\* keeps every other entry as it was, expired or not.
C22_EvictsLeastRecentlyUsed ==
    [][(/\ CacheStep("set")
        /\ cacheCall'.key \notin HeldKeys(cache.cache)
        /\ Len(cache.cache) = cache.maxSize)
       => /\ Entries(cache.cache) \ Entries(cache'.cache)
               = {e \in Entries(cache.cache) : e.key = Head(recency)}
          /\ HeldKeys(cache'.cache)
               = (HeldKeys(cache.cache) \ {Head(recency)}) \cup {cacheCall'.key}
          /\ Len(cache'.cache) = cache.maxSize]_vars

\* the entry the Map m holds under key k: the empty set when it holds none
EntryOf(m, k) == {e \in Entries(m) : e.key = k}

\* the entry is not older than maxAge at time now
Live(e, now, maxAge) == now - e.timestamp <= maxAge

\* C23: get(k) returns the value of the most recent set(k) when the entry
\* that set(k) stored is still in the cache (not deleted, cleared, evicted or
\* cleaned up) and is not older than maxAge, and undefined otherwise; an
\* entry it finds older than maxAge it removes.  As steps: set(k, v) leaves
\* under k exactly the entry of v stamped with the current time; no other
\* call creates or alters an entry; and get(k) answers from the entry held
\* under k as said.
C23_GetReturnsLatestSet ==
    [][/\ CacheStep("set")
          => EntryOf(cache'.cache, cacheCall'.key)
               = {[key |-> cacheCall'.key, value |-> cacheCall'.value,
                   timestamp |-> clock]}
       /\ \A k \in HeldKeys(cache'.cache) :
             ~(CacheStep("set") /\ cacheCall'.key = k)
             => EntryOf(cache'.cache, k) = EntryOf(cache.cache, k)
       /\ CacheStep("get")
          => LET found == EntryOf(cache.cache, cacheCall'.key)
             IN  IF \E e \in found : Live(e, clock, cache.maxAge)
                 THEN /\ \A e \in found : cacheCall'.ret = e.value
                      /\ EntryOf(cache'.cache, cacheCall'.key) = found
                 ELSE /\ cacheCall'.ret = JSUndefined
                      /\ cacheCall'.key \notin HeldKeys(cache'.cache)]_vars

\* a get returned the value 2 from an entry exactly maxAge old, set after
\* the clock had moved
C23_Witness ==
    /\ cacheCall.op = "get"
    /\ cacheCall.ret = JSNumber(2)
    /\ \E e \in EntryOf(cache.cache, cacheCall.key) :
          /\ e.timestamp > 0
          /\ clock - e.timestamp = cache.maxAge

-----------------------------------------------------------------------------
(* The IPC client of the renderer.                                         *)

\* the call of invokeWithTimeout has been made, and its promise has settled
Invoked == client.pc # "idle"
Settled == client.outcome.state # "pending"

\* the invoked function has returned a promise each time and none of them
\* has resolved or rejected
NeverAnswered ==
    /\ client.invocations = Len(client.calls)
    /\ \A i \in 1..Len(client.calls) : client.calls[i].promise.state = "pending"

\* the attempts that have timed out
TimedOut == {i \in 1..Len(client.calls) : client.calls[i].timer = "fired"}

\* C24: every call of invokeWithTimeout eventually settles, also when the
\* invoked function never resolves or rejects; in that case, with retries
\* n >= 0, it rejects with an IPCTimeoutError of its channel and timeout
\* (30000 ms when none is given) after at most n + 1 timed-out attempts.
C24_EventuallySettles ==
    /\ Invoked ~> Settled
    /\ [](Settled /\ NeverAnswered /\ client.retries >= 0
          => /\ client.outcome.state = "rejected"
             /\ client.outcome.error = IPCTimeoutError(client.channel, client.timeout)
             /\ client.timeout \in {DEFAULT_IPC_TIMEOUT, 50}
             /\ Cardinality(TimedOut) <= client.retries + 1
             /\ client.invocations <= client.retries + 1)

\* a call with two retries and the default timeout was rejected after three
\* attempts that were never answered
C24_Witness ==
    /\ Settled
    /\ NeverAnswered
    /\ client.retries = 2
    /\ client.timeout = 30000
    /\ Cardinality(TimedOut) = 3
    /\ client.outcome.error = IPCTimeoutError("test:channel", 30000)

\* the promise p is no longer pending
IsSettled(p) == p.state # "pending"

\* C25: the promise withTimeout returns settles exactly once, with the
\* outcome of the first of two events: the given promise settles (same value
\* or same error) or the timer fires (an IPCTimeoutError carrying the channel
\* and the timeout).  When the given promise settles first the timer is
\* cleared and never fires; an event after the settling changes nothing.
C25_SettlesOnceWithFirstEvent ==
    [][\A i \in 1..Len(client.calls) :
          LET w == client.calls[i]
              v == client'.calls[i]
          IN  /\ IsSettled(w.returned) => v.returned = w.returned
              /\ ~IsSettled(w.returned) /\ v # w
                 => \/ /\ ~IsSettled(w.promise) /\ IsSettled(v.promise)
                       /\ v.returned = v.promise
                       /\ w.timer = "armed" /\ v.timer = "cleared"
                    \/ /\ v.promise = w.promise
                       /\ w.timer = "armed" /\ v.timer = "fired"
                       /\ v.returned.state = "rejected"
                       /\ v.returned.error.type = "IPCTimeoutError"
                       /\ v.returned.error.channel = client.channel
                       /\ v.returned.error.timeoutMs = client.timeout
              /\ w.timer = "cleared" => v.timer = "cleared"
              /\ w.timer = "fired" => v.timer = "fired"]_vars

\* the given promise of the first attempt resolved after the timer had fired
\* and the returned promise kept the timeout error
C25_Witness ==
    /\ Len(client.calls) >= 1
    /\ client.calls[1].timer = "fired"
    /\ client.calls[1].promise.state = "fulfilled"
    /\ client.calls[1].returned.state = "rejected"
    /\ client.calls[1].returned.error.type = "IPCTimeoutError"

\* the step starts an attempt: invokeFunction is called
StartsAttempt == client'.invocations > client.invocations

\* the error the latest attempt failed with, when it has failed: the error
\* the promise of withTimeout was rejected with
LatestFailure ==
    IF /\ client.calls # <<>>
       /\ client.invocations = Len(client.calls)
       /\ client.calls[Len(client.calls)].returned.state = "rejected"
    THEN {client.calls[Len(client.calls)].returned.error}
    ELSE {}

\* C26: invokeWithTimeout starts a further attempt only after an attempt
\* failed with an IPCTimeoutError while fewer than retries + 1 attempts had
\* been made, and only when the wait of retryDelay (1000 ms when none is
\* given) has ended; an attempt failing with any other error rejects the
\* call at once with that error, and no further invocation follows.
C26_RetriesOnlyAfterTimeout ==
    [][/\ StartsAttempt /\ Invoked
          => /\ client.lastError.type = "IPCTimeoutError"
             /\ client.invocations < client.retries + 1
             /\ client'.invocations = client.invocations + 1
             /\ client.pc = "delaying" /\ client.delay = "armed"
             /\ client.retryDelay \in {1000, 10}
       /\ \A e \in LatestFailure :
             /\ client.pc = "delaying"
                => e.type = "IPCTimeoutError" /\ client.invocations < client.retries + 1
             /\ e.type # "IPCTimeoutError"
                => /\ client.outcome = [state |-> "rejected", result |-> "", error |-> e]
                   /\ ~StartsAttempt]_vars

\* the second attempt has been started after the first one timed out
C26_Witness ==
    /\ client.invocations = 2
    /\ Len(client.calls) = 2
    /\ client.calls[1].timer = "fired"
    /\ client.calls[2].timer = "armed"
    /\ client.retryDelay = 1000

\* the attempts whose promise was fulfilled, and those that failed with an
\* IPCTimeoutError
Succeeded == {i \in 1..Len(client.calls) : client.calls[i].returned.state = "fulfilled"}
FailedByTimeout ==
    {i \in 1..Len(client.calls) :
        /\ client.calls[i].returned.state = "rejected"
        /\ client.calls[i].returned.error.type = "IPCTimeoutError"}

\* C27: invokeWithTimeout calls the invoked function at most retries + 1
\* times, exactly once with retries 0; it makes no call after an attempt
\* succeeded and resolves with the result of that first successful attempt;
\* when all retries + 1 attempts time out it rejects with the
\* IPCTimeoutError of the last one.
C27_AtMostRetriesPlusOne ==
    /\ [](Invoked
          => /\ client.invocations <= client.retries + 1
             /\ client.retries = 0 => client.invocations = 1
             /\ \A i \in Succeeded :
                   /\ Succeeded = {i}
                   /\ i = Len(client.calls)
                   /\ client.outcome
                        = [state |-> "fulfilled",
                           result |-> client.calls[i].promise.result,
                           error |-> NoError]
             /\ client.retries >= 0
                /\ Cardinality(FailedByTimeout) = client.retries + 1
                => client.outcome
                     = [state |-> "rejected", result |-> "",
                        error |-> client.calls[Len(client.calls)].returned.error])
    /\ [][Succeeded # {} => ~StartsAttempt]_vars

\* three attempts were made with two retries: two timed out and the third
\* one gave the result
C27_Witness ==
    /\ client.retries = 2
    /\ client.invocations = 3
    /\ Succeeded = {3}
    /\ FailedByTimeout = {1, 2}
    /\ client.outcome.state = "fulfilled"

-----------------------------------------------------------------------------
(* escapeArgument and the backslash.                                       *)

\* the dangerous characters other than the backslash
Dangerous15 == Dangerous16 \ {"\\"}

\* the maximal runs of backslashes of s, each as <<first, last>>
BackslashRuns(s) ==
    {r \in (1..Len(s)) \X (1..Len(s)) :
        /\ r[1] <= r[2]
        /\ \A i \in r[1]..r[2] : s[i] = "\\"
        /\ r[1] = 1 \/ s[r[1] - 1] # "\\"
        /\ r[2] = Len(s) \/ s[r[2] + 1] # "\\"}

\* the characters of s that are neither backslashes nor dangerous, in order
PlainCharacters(s) == SelectSeq(s, LAMBDA ch : ch \notin Dangerous16)

\* C28: in escapeArgument(s) every maximal run of backslashes that stands
\* right before a dangerous character other than the backslash has odd
\* length, every other maximal run of backslashes has even length, and the
\* characters of s that are neither backslashes nor dangerous appear
\* unchanged and in the same order.
C28_BackslashRunParity ==
    op = "escapeArgument" /\ arg.k = "string"
    => /\ \A r \in BackslashRuns(ret) :
             (r[2] - r[1] + 1) % 2
                = IF r[2] < Len(ret) /\ ret[r[2] + 1] \in Dangerous15 THEN 1 ELSE 0
       /\ PlainCharacters(ret) = PlainCharacters(arg.s)

\* the argument had two backslashes before a dangerous character and a
\* backslash before a letter: the output has a run of three and a run of two
C28_Witness ==
    /\ op = "escapeArgument"
    /\ arg = JSString(<<"\\", "\\", ";", "\\", "a">>)
    /\ ret = <<"\\", "\\", "\\", ";", "\\", "\\", "a">>

-----------------------------------------------------------------------------
(* Package names in command lines.                                         *)

\* the command line that installs the package n with the base command b
InstallCommand(b, n) == b \o <<" ", "i", "n", "s", "t", "a", "l", "l", " ">> \o n

\* C29: a value validatePackageName accepts has no dangerous character and
\* no white space, so for each of the ten allow-listed base commands b
\* validateCommand(b + ' install ' + n) is valid for the accepted value n
\* and its sanitizedCommand is that same string.
C29_AcceptedNameInCommand ==
    op = "validatePackageName" /\ ret.valid = TRUE
    => /\ ~HasDangerous(ret.value)
       /\ \A i \in 1..Len(ret.value) : ret.value[i] \notin WhiteSpace
       /\ \A b \in TenNames :
             validateCommand(JSString(InstallCommand(b, ret.value)),
                             allowedCommands, lastIndex).ret
                = [valid |-> TRUE,
                   sanitizedCommand |-> InstallCommand(b, ret.value)]

\* a scoped name was accepted
C29_Witness ==
    /\ op = "validatePackageName"
    /\ ret.valid = TRUE
    /\ ret.value = <<"@", "a", "/", "a">>

-----------------------------------------------------------------------------
(* The sender of an IPC message.                                           *)

\* s begins with the characters of p
HasPrefix(s, p) == Len(s) >= Len(p) /\ \A i \in 1..Len(p) : s[i] = p[i]

\* the least and the greatest number of a non-empty set of numbers
Least(S) == CHOOSE n \in S : \A m \in S : n <= m
Greatest(S) == CHOOSE n \in S : \A m \in S : n >= m

\* the authority of an http URL: what follows "http://" up to the first
\* "/", "?" or "#"
Authority(url) ==
    LET rest == SubSeq(url, 8, Len(url))
        stops == {i \in 1..Len(rest) : rest[i] \in {"/", "?", "#"}}
    IN  IF stops = {} THEN rest ELSE SubSeq(rest, 1, Least(stops) - 1)

\* the host of an authority: what follows the user information, which ends
\* at the last "@", up to the ":" of the port
HostOf(authority) ==
    LET ats == {i \in 1..Len(authority) : authority[i] = "@"}
        rest == IF ats = {} THEN authority
                ELSE SubSeq(authority, Greatest(ats) + 1, Len(authority))
        colons == {i \in 1..Len(rest) : rest[i] = ":"}
    IN  IF colons = {} THEN rest ELSE SubSeq(rest, 1, Least(colons) - 1)

\* the URL is one of the application itself: a file:// URL, or an http URL
\* whose host is localhost
FromApplication(url) ==
    \/ HasPrefix(url, <<"f", "i", "l", "e", ":", "/", "/">>)
    \/ /\ HasPrefix(url, <<"h", "t", "t", "p", ":", "/", "/">>)
       /\ HostOf(Authority(url))
            = <<"l", "o", "c", "a", "l", "h", "o", "s", "t">>

\* C30: validateIPCSender returns true only when the URL of the sender is
\* one of the application itself, a file:// URL or an http URL whose host is
\* localhost, and false otherwise.
C30_TrueOnlyFromApplication ==
    op = "validateIPCSender" => (ret = TRUE => FromApplication(arg.s))

-----------------------------------------------------------------------------
(* The order of the cache.                                                 *)

\* the keys of the sequence ks that the cache object c holds, in their order
Remaining(ks, c) == SelectSeq(ks, LAMBDA k : k \in HeldKeys(c.cache))

\* C31: keys() lists the entries from the least to the most recently used
\* one, a use being a set or a get that found a live entry; has, delete and
\* cleanup leave the relative order of the keys that remain as it was.
C31_KeysInRecencyOrder ==
    /\ [](cache.constructed => keys(cache) = recency)
    /\ [][CacheStep("has") \/ CacheStep("delete") \/ CacheStep("cleanup")
          => keys(cache') = Remaining(keys(cache), cache')]_vars

\* a get has moved the entry that was set first behind the one set later
C31_Witness ==
    /\ cacheCall.op = "get"
    /\ cacheCall.ret # JSUndefined
    /\ Len(cache.cache) = 2
    /\ keys(cache)[2] = cacheCall.key
    /\ cache.cache[2].timestamp < cache.cache[1].timestamp

\* C32: a set of a key the cache holds replaces the value and the timestamp
\* of its entry, makes the key the most recently used one, leaves the size
\* as it was and evicts no other entry, also when the cache holds maxSize
\* entries.
C32_SetOfHeldKey ==
    [][(CacheStep("set") /\ cacheCall'.key \in HeldKeys(cache.cache))
       => /\ EntryOf(cache'.cache, cacheCall'.key)
               = {[key |-> cacheCall'.key, value |-> cacheCall'.value,
                   timestamp |-> clock]}
          /\ cache'.cache[Len(cache'.cache)].key = cacheCall'.key
          /\ Len(cache'.cache) = Len(cache.cache)
          /\ \A e \in Entries(cache.cache) :
                e.key # cacheCall'.key => e \in Entries(cache'.cache)]_vars

\* C33: a get that finds a live entry makes it the most recently used one
\* and leaves its timestamp, the time of its last set, as it is; a get that
\* finds the entry more than maxAge after that time removes it, whatever
\* reads were made in between, since no call but set stamps an entry.
C33_GetDoesNotRenew ==
    [][/\ CacheStep("get")
          => \A e \in EntryOf(cache.cache, cacheCall'.key) :
                IF clock - e.timestamp > cache.maxAge
                THEN /\ cacheCall'.key \notin HeldKeys(cache'.cache)
                     /\ cacheCall'.ret = JSUndefined
                ELSE /\ e \in Entries(cache'.cache)
                     /\ cache'.cache[Len(cache'.cache)] = e
       /\ ~CacheStep("set")
          => \A e \in Entries(cache'.cache) :
                \E d \in Entries(cache.cache) :
                   d.key = e.key /\ d.timestamp = e.timestamp]_vars

\* an entry set at time 0 was read when its age was maxAge: it is the most
\* recently used entry and still carries the timestamp 0
C33_Witness ==
    /\ cacheCall.op = "get"
    /\ cacheCall.ret # JSUndefined
    /\ clock = cache.maxAge
    /\ Len(cache.cache) = 2
    /\ cache.cache[2].key = cacheCall.key
    /\ cache.cache[2].timestamp = 0
    /\ cache.cache[1].timestamp = clock

\* C34: cleanup removes exactly the entries older than maxAge, keeping an
\* entry whose age equals maxAge, and leaves every other entry with its
\* value, its timestamp and its place among the others.
C34_CleanupRemovesExpired ==
    [][CacheStep("cleanup")
       => cache'.cache
            = SelectSeq(cache.cache, LAMBDA e : Live(e, clock, cache.maxAge))]_vars

\* after a cleanup at time 2 the cache holds an entry of age maxAge behind a
\* newer one
C34_Witness ==
    /\ cacheCall.op = "cleanup"
    /\ clock = 2
    /\ Len(cache.cache) = 2
    /\ clock - cache.cache[1].timestamp = cache.maxAge
    /\ cache.cache[2].timestamp = clock

\* the entries a CacheManager of the model can hold
ManagerEntries ==
    [key : ManagerKeys, value : ManagerValues, timestamp : 0..MaxNow]

TimerRunning == cleanupInterval.timer = "running"
Expired(e) == ~Live(e, clock, cache.maxAge)

\* the callback of the timer removes exactly the expired entries
TimerRemovesExpired ==
    [][CacheStep("timer")
       => cache'.cache = SelectSeq(cache.cache,
                                   LAMBDA e : Live(e, clock, cache.maxAge))]_vars

\* an entry leaves the cache unless the timer is stopped; a set of its key at
\* a later time puts another entry in its place
EventuallyRemoved ==
    \A e \in ManagerEntries :
        (e \in Entries(cache.cache) /\ TimerRunning)
            ~> (e \notin Entries(cache.cache) \/ ~TimerRunning)

\* once stopCleanup has been called the timer never cleans again, and has
\* answers true for every entry held, expired or not
StoppedForGood ==
    /\ [][cleanupInterval.stopCalled => ~CacheStep("timer")]_vars
    /\ [][(CacheStep("has") /\ cacheCall'.key \in HeldKeys(cache.cache))
          => cacheCall'.ret = JSBoolean(TRUE)]_vars

\* an expired entry e leaves the cache in this step
Leaves(e) == e \in Entries(cache.cache) /\ Expired(e) /\ e \notin Entries(cache'.cache)

\* C35 as stated: while the cleanup timer of a CacheManager runs, a timer
\* tick removes every expired entry, so every entry that is not set again
\* is eventually removed; after stopCleanup no cleanup by the timer happens
\* again and an expired entry stays in the cache, has answering true for it,
\* until a get of its key or a cleanup call removes it.
C35_ExpiredStaysUntilGetOrCleanup ==
    /\ TimerRemovesExpired
    /\ EventuallyRemoved
    /\ StoppedForGood
    /\ [][cleanupInterval.stopCalled
          => \A e \in ManagerEntries :
                Leaves(e) => \/ CacheStep("cleanup")
                             \/ CacheStep("get") /\ cacheCall'.key = e.key]_vars

\* C35, amended: as stated, but after stopCleanup an expired entry stays in
\* the cache until a get of its key, a cleanup call, a delete of its key, a
\* clear or a set (of its key, which replaces it, or of another key, which
\* may evict it) removes it; has and the passing of time never do.
C35_ExpiredStaysUntilCalled ==
    /\ TimerRemovesExpired
    /\ EventuallyRemoved
    /\ StoppedForGood
    /\ [][cleanupInterval.stopCalled
          => \A e \in ManagerEntries :
                Leaves(e) => \/ CacheStep("cleanup")
                             \/ CacheStep("get") /\ cacheCall'.key = e.key
                             \/ CacheStep("delete") /\ cacheCall'.key = e.key
                             \/ CacheStep("clear")
                             \/ CacheStep("set")]_vars

\* after stopCleanup, has has answered true for an entry that is expired
C35_Witness ==
    /\ cleanupInterval.stopCalled
    /\ cacheCall.op = "has"
    /\ cacheCall.ret = JSBoolean(TRUE)
    /\ \E e \in Entries(cache.cache) : e.key = cacheCall.key /\ Expired(e)

\* the error only the statement after the retry loop makes
AfterLoopError ==
    [type |-> "Error", channel |-> client.channel, timeoutMs |-> 0,
     message |-> <<"IPC call to '", client.channel, "' failed after ",
                   client.maxAttempts, " attempts">>]

\* C36: the statement after the retry loop of invokeWithTimeout is never
\* reached: whatever the options, a call that was made has called the
\* invoked function at least once, and a call that has settled settled from
\* inside the loop, with the result an attempt returned or the error an
\* attempt threw, never with the error of the statement after the loop.
C36_SettlesInsideLoop ==
    /\ Invoked => client.invocations >= 1 /\ client.attempts >= 1
    /\ Settled => \/ client.outcome.state = "fulfilled"
                  \/ /\ client.outcome.state = "rejected"
                     /\ client.outcome.error # AfterLoopError
                     /\ client.lastError # NoError

\* the attempts whose underlying call has not answered yet
InFlight == {i \in 1..Len(client.calls) : client.calls[i].promise.state = "pending"}

\* the timer of attempt i fires in this step
TimesOut(i) == client.calls[i].timer = "armed" /\ client'.calls[i].timer = "fired"

\* the underlying call of attempt i answers in this step, after its timer
\* has fired
AnswersLate(i) ==
    /\ client.calls[i].timer = "fired"
    /\ client.calls[i].promise.state = "pending"
    /\ client'.calls[i].promise.state # "pending"

\* C37: a timed-out attempt of invokeWithTimeout is not cancelled: the
\* firing of its timer leaves its underlying call pending, so calls of
\* earlier attempts stay in flight beside later ones, never more than
\* retries + 1 at once; the result or error such a call delivers after its
\* timer has fired changes neither the promise its attempt returned nor the
\* state of invokeWithTimeout, so it never becomes the outcome.
C37_LateAnswerDiscarded ==
    /\ [](Invoked => Cardinality(InFlight) <= client.retries + 1)
    /\ [][\A i \in 1..Len(client.calls) :
            /\ TimesOut(i) => client'.calls[i].promise = client.calls[i].promise
            /\ AnswersLate(i) => /\ client'.calls[i].returned = client.calls[i].returned
                                 /\ client'.outcome = client.outcome
                                 /\ client'.pc = client.pc
                                 /\ client'.lastError = client.lastError]_vars

\* retries + 1 = 3 attempts were started; the first two timed out, the call
\* of the first answered late while the second and the third were in
\* flight, and the outcome is still open
C37_Witness ==
    /\ client.retries = 2
    /\ Len(client.calls) = 3
    /\ client.calls[1].timer = "fired"
    /\ client.calls[1].promise.state = "fulfilled"
    /\ client.calls[1].returned.state = "rejected"
    /\ client.calls[2].timer = "fired"
    /\ InFlight = {2, 3}
    /\ ~Settled

\* C38: of every response createSuccessResponse or createErrorResponse
\* built, exactly one of isSuccessResponse and isErrorResponse holds;
\* unwrapResponse returns the data of a success response, whatever the data
\* (undefined, null and the empty array included), and throws an error with
\* the message and the code of an error response.
C38_GuardsAndUnwrap ==
    ipcResponse.guarded =>
        /\ ipcResponse.isSuccess # ipcResponse.isError
        /\ ipcResponse.call = "createSuccessResponse"
              => /\ ipcResponse.isSuccess
                 /\ ipcResponse.unwrapped.completion = "return"
                 /\ ipcResponse.unwrapped.value = ipcResponse.data
        /\ ipcResponse.call = "createErrorResponse"
              => /\ ipcResponse.isError
                 /\ ipcResponse.unwrapped.completion = "throw"
                 /\ ipcResponse.unwrapped.error.message = ipcResponse.message
                 /\ ipcResponse.unwrapped.error.code = ipcResponse.code

====
